---- MODULE Spec2Model ----
(***************************************************************************)
(* A model of jonwraymond/toolindex: the in-memory tool registry           *)
(* (InMemoryIndex), its search-document cache, the lexical searcher and    *)
(* the cursor pagination built on the index version.                       *)
(*                                                                         *)
(* Go strings are modelled as sequences of one-character strings, so that  *)
(* concatenation, substring search, case folding and byte-wise comparison  *)
(* are computed and not assumed.  Go pointers are sequences of length 0    *)
(* (nil) or 1.  Every registry operation is a chain of steps of one        *)
(* goroutine, cut at each point where it takes or releases idx.mu.         *)
(***************************************************************************)
EXTENDS Integers, Sequences, FiniteSets

\* ------------------------------------------------------------------ bounds
\* Successful mutations (index version) allowed in the registry specification.
MaxVersion == 3
\* Successful mutations allowed in the pagination specification.
MaxPageVersion == 3
\* Successful mutations allowed in the concurrent specification.
MaxConcVersion == 2
\* Largest page limit / search limit a caller passes.
MaxLimit == 2
\* Listener tokens handed out by OnChange.
MaxListenerID == 1
\* Successful mutations allowed in the backend specification.
MaxBackendVersion == 4
\* Successful mutations allowed in the listener specification.
MaxListenerVersion == 3
\* Listener tokens handed out by OnChange in the listener specification.
MaxSubscribers == 2

\* ------------------------------------------------------- strings (Go: string)
\* Characters in byte order; the position gives the byte-wise comparison.
CharOrder ==
  << " ", "0", "1", "2", "3", "4", "5", "6", "7", "8", "9", ":",
     "A", "B", "G", "T", "X", "Y",
     "a", "b", "c", "d", "e", "g", "i", "l", "m", "n", "o", "p", "r", "s",
     "t", "v", "x", "y", "z", "|" >>

CharCode(c) == CHOOSE i \in 1..Len(CharOrder) : CharOrder[i] = c

Min(a, b) == IF a < b THEN a ELSE b

\* Go's s < t on strings: lexicographic on bytes.
StrLess(s, t) ==
  \E i \in 1..(Min(Len(s), Len(t)) + 1) :
     /\ \A j \in 1..(i - 1) : s[j] = t[j]
     /\ \/ i > Len(s) /\ i <= Len(t)
        \/ i <= Len(s) /\ i <= Len(t) /\ CharCode(s[i]) < CharCode(t[i])

LowerChar(c) ==
  CASE c = "A" -> "a" [] c = "B" -> "b" [] c = "G" -> "g" [] c = "T" -> "t"
    [] c = "X" -> "x" [] c = "Y" -> "y" [] OTHER -> c

\* strings.ToLower
ToLower(s) == [i \in 1..Len(s) |-> LowerChar(s[i])]

RECURSIVE TrimLeft(_)
TrimLeft(s) == IF Len(s) > 0 /\ s[1] = " " THEN TrimLeft(Tail(s)) ELSE s

RECURSIVE TrimRight(_)
TrimRight(s) ==
  IF Len(s) > 0 /\ s[Len(s)] = " " THEN TrimRight(SubSeq(s, 1, Len(s) - 1)) ELSE s

\* strings.TrimSpace
TrimSpace(s) == TrimRight(TrimLeft(s))

\* strings.Contains
Contains(s, q) ==
  \E i \in 0..(Len(s) - Len(q)) : SubSeq(s, i + 1, i + Len(q)) = q

\* strings.Join
RECURSIVE Join(_, _)
Join(parts, sep) ==
  IF Len(parts) = 0 THEN << >>
  ELSE IF Len(parts) = 1 THEN parts[1]
  ELSE parts[1] \o sep \o Join(Tail(parts), sep)

Digit(d) == CharOrder[d + 2]

\* strconv.Itoa for the lengths that occur (below 100)
Itoa(n) == IF n < 10 THEN << Digit(n) >> ELSE << Digit(n \div 10), Digit(n % 10) >>

\* The index of the first occurrence of character c in s, 0 when absent.
IndexOf(s, c) ==
  IF \E i \in 1..Len(s) : s[i] = c
  THEN CHOOSE i \in 1..Len(s) : s[i] = c /\ \A j \in 1..(i - 1) : s[j] # c
  ELSE 0

\* The elements of a sequence.
Range(s) == {s[i] : i \in 1..Len(s)}

\* Insertion sort of a sequence under a strict order given as the set LT of
\* pairs << x, y >> with x before y: what sort.Slice and sort.Strings run on
\* slices of at most 12 elements; elements that LT does not order keep their
\* input order.
RECURSIVE InsertSorted(_, _, _)
InsertSorted(x, s, LT) ==
  IF Len(s) = 0 THEN << x >>
  ELSE IF << x, s[Len(s)] >> \in LT
       THEN InsertSorted(x, SubSeq(s, 1, Len(s) - 1), LT) \o << s[Len(s)] >>
       ELSE s \o << x >>

RECURSIVE InsertionSort(_, _)
InsertionSort(s, LT) ==
  IF Len(s) = 0 THEN << >>
  ELSE InsertSorted(s[Len(s)], InsertionSort(SubSeq(s, 1, Len(s) - 1), LT), LT)

\* A set as a sequence in some order: Go's randomized map iteration order is
\* erased by the sort that follows every such loop in the program.
RECURSIVE SetToSeq(_)
SetToSeq(S) ==
  IF S = {} THEN << >>
  ELSE LET x == CHOOSE y \in S : TRUE IN << x >> \o SetToSeq(S \ {x})

\* --------------------------------------------------------------- values
\* Error sentinels (index.go:23-28); ErrPlain is an error wrapping none of them.
ErrNone == "nil"
ErrNotFound == "NotFound"
ErrInvalidTool == "InvalidTool"
ErrInvalidBackend == "InvalidBackend"
ErrInvalidCursor == "InvalidCursor"
ErrPanic == "panic"
ErrPlain == "plain"

MaxShortDescriptionLen == 120

ChangeRegistered == "registered"
ChangeUpdated == "updated"
ChangeBackendRemoved == "backend_removed"
ChangeToolRemoved == "tool_removed"
ChangeRefreshed == "refreshed"

\* toolmodel.BackendKind values.
BackendKindMCP == << "m", "c", "p" >>
BackendKindProvider == << "p", "r", "o", "v", "i", "d", "e", "r" >>
BackendKindLocal == << "l", "o", "c", "a", "l" >>

\* toolmodel.ToolBackend{Kind, MCP, Provider, Local}; the three pointers are
\* sequences of length 0 (nil) or 1.
MkBackend(kind, mcp, provider, local) ==
  [Kind |-> kind, MCP |-> mcp, Provider |-> provider, Local |-> local]

makeMCPBackend(serverName) ==
  MkBackend(BackendKindMCP, << [ServerName |-> serverName] >>, << >>, << >>)

makeProviderBackend(providerID, toolID) ==
  MkBackend(BackendKindProvider, << >>,
            << [ProviderID |-> providerID, ToolID |-> toolID] >>, << >>)

makeLocalBackend(name) ==
  MkBackend(BackendKindLocal, << >>, << >>, << [Name |-> name] >>)

\* The zero ToolBackend.
ZeroBackend == MkBackend(<< >>, << >>, << >>, << >>)

\* Go values held in an `any`: a tag and a payload.
\*   nil | raw (json.RawMessage) | bytes ([]byte) | int | float | string |
\*   bool | map (map[string]any) | slice ([]any) | strings ([]string, a type
\*   json.Unmarshal never produces but Go code puts into schemas and metadata)
JNil == [t |-> "nil", v |-> 0]
JRaw(bs) == [t |-> "raw", v |-> bs]
JBytes(bs) == [t |-> "bytes", v |-> bs]
JInt(n) == [t |-> "int", v |-> n]
JFloat(n) == [t |-> "float", v |-> n]
JString(s) == [t |-> "string", v |-> s]
JBool(b) == [t |-> "bool", v |-> b]
JMap(f) == [t |-> "map", v |-> f]
JSlice(q) == [t |-> "slice", v |-> q]
JStrings(q) == [t |-> "strings", v |-> q]

\* json.Unmarshal(bytes, &any) on the JSON texts that occur: ok is FALSE on
\* a syntax error; numbers decode to float64, objects to map[string]any.
jsonUnmarshal(bs) ==
  CASE bs = << "1" >> -> [ok |-> TRUE, val |-> JFloat(1)]
    [] bs = << "1", " " >> -> [ok |-> TRUE, val |-> JFloat(1)]
    [] bs = << "2" >> -> [ok |-> TRUE, val |-> JFloat(2)]
    [] bs = << "n" >> -> [ok |-> TRUE, val |-> JNil]
    [] bs = << "{", "k", ":", "1", "}" >> -> [ok |-> TRUE, val |-> JMap([k |-> JFloat(1)])]
    [] OTHER -> [ok |-> FALSE, val |-> JNil]

IsBytes(x) == x.t \in {"raw", "bytes"}

\* How a comparison ends: it returns true, returns false, or panics.  A
\* comparison has a set of possible ends, because range visits the keys of
\* a map in an order the runtime chooses.
IsTrue == "true"
IsFalse == "false"
Panics == "panic"

\* The ends of `return x` for a boolean x.
Returns(x) == IF x THEN {IsTrue} ELSE {IsFalse}

\* The ends of `if !first { return false }; rest`.
AndThen(first, rest) ==
  (first \ {IsTrue}) \cup (IF IsTrue \in first THEN rest ELSE {})

\* The ends of a range over a map whose body compares one key: any key can
\* come first, so any key's false or panic can end the loop.
ForAllKeys(ends) ==
  (UNION {ends[k] : k \in DOMAIN ends} \ {IsTrue})
    \cup (IF \A k \in DOMAIN ends : IsTrue \in ends[k] THEN {IsTrue} ELSE {})

\* jsonEqual and jsonEqualBytes call each other; jsonEqualBytes is unfolded
\* into jsonEqual here (its two branches are the two IsBytes cases).
RECURSIVE jsonEqual(_, _)
jsonEqualBytes(aBytes, b) ==
  IF IsBytes(b)
  THEN LET ua == jsonUnmarshal(aBytes)
           ub == jsonUnmarshal(b.v)
       IN  IF ua.ok /\ ub.ok THEN jsonEqual(ua.val, ub.val) ELSE {IsFalse}
  ELSE LET ua == jsonUnmarshal(aBytes)
       IN  IF ua.ok THEN jsonEqual(ua.val, b) ELSE {IsFalse}

\* The ends of the loop over two []any of one length, from index i on.
RECURSIVE sliceEqual(_, _, _)
sliceEqual(av, bv, i) ==
  IF i > Len(av) THEN {IsTrue}
  ELSE AndThen(jsonEqual(av[i], bv[i]), sliceEqual(av, bv, i + 1))

\* jsonEqual: the fallback `a == b` compares two interface values, which
\* panics when both hold the same uncomparable type.
jsonEqual(a, b) ==
  IF a.t = "nil" /\ b.t = "nil" THEN {IsTrue}
  ELSE IF a.t = "nil" \/ b.t = "nil" THEN {IsFalse}
  ELSE IF IsBytes(b)
       THEN IF IsBytes(a) THEN jsonEqualBytes(a.v, b) ELSE jsonEqual(b, a)
  ELSE CASE IsBytes(a) -> jsonEqualBytes(a.v, b)
         [] a.t = "map" ->
              IF b.t # "map" \/ Cardinality(DOMAIN a.v) # Cardinality(DOMAIN b.v)
              THEN {IsFalse}
              ELSE ForAllKeys([k \in DOMAIN a.v |->
                                 IF k \in DOMAIN b.v THEN jsonEqual(a.v[k], b.v[k])
                                 ELSE {IsFalse}])
         [] a.t = "slice" ->
              IF b.t # "slice" \/ Len(a.v) # Len(b.v) THEN {IsFalse}
              ELSE sliceEqual(a.v, b.v, 1)
         [] a.t = "string" -> Returns(b.t = "string" /\ a.v = b.v)
         [] a.t = "float" -> Returns(b.t = "float" /\ a.v = b.v)
         [] a.t = "bool" -> Returns(b.t = "bool" /\ a.v = b.v)
         [] a.t = "int" -> Returns(b.t \in {"int", "float"} /\ a.v = b.v)
         [] OTHER -> IF a.t # b.t THEN {IsFalse} ELSE {Panics}

\* *bool as a sequence of length 0 or 1.
boolPtrEqual(a, b) ==
  IF Len(a) = 0 /\ Len(b) = 0 THEN TRUE
  ELSE IF Len(a) = 0 \/ Len(b) = 0 THEN FALSE
  ELSE a[1] = b[1]

\* *mcp.ToolAnnotations as a sequence of length 0 or 1.
annotationsEqual(a, b) ==
  IF Len(a) = 0 /\ Len(b) = 0 THEN TRUE
  ELSE IF Len(a) = 0 \/ Len(b) = 0 THEN FALSE
  ELSE /\ a[1].Title = b[1].Title
       /\ a[1].ReadOnlyHint = b[1].ReadOnlyHint
       /\ a[1].IdempotentHint = b[1].IdempotentHint
       /\ boolPtrEqual(a[1].DestructiveHint, b[1].DestructiveHint)
       /\ boolPtrEqual(a[1].OpenWorldHint, b[1].OpenWorldHint)

iconEqual(a, b) ==
  /\ a.Source = b.Source
  /\ a.MIMEType = b.MIMEType
  /\ a.Theme = b.Theme
  /\ Len(a.Sizes) = Len(b.Sizes)
  /\ \A i \in 1..Len(a.Sizes) : a.Sizes[i] = b.Sizes[i]

iconsEqual(a, b) ==
  /\ Len(a) = Len(b)
  /\ \A i \in 1..Len(a) : iconEqual(a[i], b[i])

\* mcp.Meta is a map[string]any: a function from keys to Go values.
metaEqual(a, b) ==
  IF Cardinality(DOMAIN a) # Cardinality(DOMAIN b) THEN {IsFalse}
  ELSE ForAllKeys([k \in DOMAIN a |->
                     IF k \in DOMAIN b THEN jsonEqual(a[k], b[k]) ELSE {IsFalse}])

\* toolMCPFieldsEqual that does not look at the name.
toolMCPFieldsEqual_AnyName(a, b) ==
  AndThen(Returns(a.Title = b.Title),
  AndThen(Returns(a.Description = b.Description),
  AndThen(jsonEqual(a.InputSchema, b.InputSchema),
  AndThen(jsonEqual(a.OutputSchema, b.OutputSchema),
  AndThen(Returns(annotationsEqual(a.Annotations, b.Annotations)),
  AndThen(Returns(iconsEqual(a.Icons, b.Icons)),
          metaEqual(a.Meta, b.Meta)))))))

\* toolMCPFieldsEqual: the ends of the field-by-field comparison.
toolMCPFieldsEqual(a, b) ==
  AndThen(Returns(a.Name = b.Name),
  AndThen(Returns(a.Title = b.Title),
  AndThen(Returns(a.Description = b.Description),
  AndThen(jsonEqual(a.InputSchema, b.InputSchema),
  AndThen(jsonEqual(a.OutputSchema, b.OutputSchema),
  AndThen(Returns(annotationsEqual(a.Annotations, b.Annotations)),
  AndThen(Returns(iconsEqual(a.Icons, b.Icons)),
          metaEqual(a.Meta, b.Meta))))))))

\* ---------------------------------------------------------------- tools
\* toolmodel.Tool: the embedded mcp.Tool fields plus Namespace and Tags.
MkTool(name, ns, desc, schema, tags) ==
  [Name |-> name, Title |-> << >>, Description |-> desc,
   InputSchema |-> schema, OutputSchema |-> JNil, Annotations |-> << >>,
   Icons |-> << >>, Meta |-> << >>, Namespace |-> ns, Tags |-> tags]

\* toolmodel.Tool.ToolID: namespace + ":" + name, or the bare name.
ToolID(tool) ==
  IF tool.Namespace = << >> THEN tool.Name
  ELSE tool.Namespace \o << ":" >> \o tool.Name

\* toolmodel.Tool.Validate: a name and an input schema are required.
ToolValid(tool) == tool.Name # << >> /\ tool.InputSchema.t # "nil"

\* toolmodel.NormalizeTags: each tag trimmed and lowercased, empty tags
\* dropped, duplicates dropped keeping the first occurrence.
RECURSIVE NormalizeTags(_)
NormalizeTags(tags) ==
  IF Len(tags) = 0 THEN << >>
  ELSE LET init == NormalizeTags(SubSeq(tags, 1, Len(tags) - 1))
           n == ToLower(TrimSpace(tags[Len(tags)]))
       IN  IF n = << >> \/ n \in Range(init) THEN init ELSE init \o << n >>

\* encodeIdentity that joins the parts with ':' and no length prefix.
encodeIdentity_Joined(parts) == Join(parts, << ":" >>)

encodeIdentity(parts) ==
  Join([i \in 1..Len(parts) |-> Itoa(Len(parts[i])) \o << ":" >> \o parts[i]],
       << "|" >>)

backendIdentity(backend) ==
  CASE backend.Kind = BackendKindMCP /\ Len(backend.MCP) > 0 ->
         encodeIdentity(<< backend.Kind, backend.MCP[1].ServerName >>)
    [] backend.Kind = BackendKindProvider /\ Len(backend.Provider) > 0 ->
         encodeIdentity(<< backend.Kind, backend.Provider[1].ProviderID,
                           backend.Provider[1].ToolID >>)
    [] backend.Kind = BackendKindLocal /\ Len(backend.Local) > 0 ->
         encodeIdentity(<< backend.Kind, backend.Local[1].Name >>)
    [] OTHER -> << >>

\* validateBackend: the error it returns.
validateBackend(backend) ==
  CASE backend.Kind = BackendKindMCP ->
         IF Len(backend.MCP) = 0 \/ backend.MCP[1].ServerName = << >>
         THEN ErrInvalidBackend ELSE ErrNone
    [] backend.Kind = BackendKindProvider ->
         IF Len(backend.Provider) = 0 THEN ErrInvalidBackend
         ELSE IF backend.Provider[1].ProviderID = << >> THEN ErrInvalidBackend
         ELSE IF backend.Provider[1].ToolID = << >> THEN ErrInvalidBackend
         ELSE ErrNone
    [] backend.Kind = BackendKindLocal ->
         IF Len(backend.Local) = 0 \/ backend.Local[1].Name = << >>
         THEN ErrInvalidBackend ELSE ErrNone
    [] OTHER -> ErrInvalidBackend

\* DefaultBackendSelector that takes the oldest backend.
DefaultBackendSelector_Oldest(backends) ==
  IF Len(backends) = 0 THEN ZeroBackend ELSE backends[1]

DefaultBackendSelector(backends) ==
  LET first(kind) ==
        backends[CHOOSE i \in 1..Len(backends) :
                   /\ backends[i].Kind = kind
                   /\ \A j \in 1..(i - 1) : backends[j].Kind # kind]
      has(kind) == \E i \in 1..Len(backends) : backends[i].Kind = kind
  IN  IF Len(backends) = 0 THEN ZeroBackend
      ELSE IF has(BackendKindLocal) THEN first(BackendKindLocal)
      ELSE IF has(BackendKindProvider) THEN first(BackendKindProvider)
      ELSE IF has(BackendKindMCP) THEN first(BackendKindMCP)
      ELSE backends[1]

buildDocText(tool, normalizedTags) ==
  Join(<< ToLower(tool.Name), ToLower(tool.Namespace), ToLower(tool.Description) >>
         \o normalizedTags,
       << " " >>)

buildSummary(tool, normalizedTags) ==
  LET shortDesc == IF Len(tool.Description) > MaxShortDescriptionLen
                   THEN SubSeq(tool.Description, 1, MaxShortDescriptionLen)
                   ELSE tool.Description
  IN  [ID |-> ToolID(tool), Name |-> tool.Name, Namespace |-> tool.Namespace,
       ShortDescription |-> shortDesc, Tags |-> normalizedTags]

\* refreshRecordDerived: the record with docText and summary recomputed.
refreshRecordDerived(record) ==
  [record EXCEPT !.docText = buildDocText(record.tool, record.normalizedTags),
                 !.summary = buildSummary(record.tool, record.normalizedTags)]

\* ------------------------------------------------------------- pagination
\* A cursor string is modelled by what base64 and JSON decoding make of it:
\*   empty   the empty string
\*   token   base64 of JSON that json.Unmarshal takes for a cursorToken; off
\*           and sum are its two numbers (a negative sum does not fit the
\*           uint64 field; "null" and "{}" give two zeros)
\*   notb64  not base64
\*   notjson base64 of something that is not a JSON object or null
EmptyCursor == [k |-> "empty", off |-> 0, sum |-> 0]
GarbageCursor == [k |-> "notb64", off |-> 0, sum |-> 0]
NotJSONCursor == [k |-> "notjson", off |-> 0, sum |-> 0]

\* encodeCursor that resumes one item too far.
encodeCursor_SkipsOne(offset, checksum) ==
  [k |-> "token", off |-> offset + 1, sum |-> checksum]

encodeCursor(offset, checksum) == [k |-> "token", off |-> offset, sum |-> checksum]

\* decodeCursor that lets a negative offset through.
decodeCursor_AnyOffset(cursor) ==
  IF cursor.k = "empty" THEN [Offset |-> 0, Checksum |-> 0, err |-> ErrNone]
  ELSE IF cursor.k = "notb64" THEN [Offset |-> 0, Checksum |-> 0, err |-> ErrInvalidCursor]
  ELSE IF cursor.k = "notjson" \/ cursor.sum < 0
       THEN [Offset |-> 0, Checksum |-> 0, err |-> ErrInvalidCursor]
  ELSE [Offset |-> IF cursor.off < 0 THEN 0 ELSE cursor.off,
        Checksum |-> cursor.sum, err |-> ErrNone]

\* decodeCursor: the token and the error.
decodeCursor(cursor) ==
  IF cursor.k = "empty" THEN [Offset |-> 0, Checksum |-> 0, err |-> ErrNone]
  ELSE IF cursor.k = "notb64" THEN [Offset |-> 0, Checksum |-> 0, err |-> ErrInvalidCursor]
  ELSE IF cursor.k = "notjson" \/ cursor.sum < 0
       THEN [Offset |-> 0, Checksum |-> 0, err |-> ErrInvalidCursor]
  ELSE IF cursor.off < 0 THEN [Offset |-> 0, Checksum |-> 0, err |-> ErrInvalidCursor]
  ELSE [Offset |-> cursor.off, Checksum |-> cursor.sum, err |-> ErrNone]

\* paginateResults that trusts the cursor's checksum.
paginateResults_NoChecksum(items, limit, cursor, checksum) ==
  LET token == decodeCursor(cursor)
      end == Min(token.Offset + limit, Len(items))
  IN  IF token.err # ErrNone
      THEN [page |-> << >>, next |-> EmptyCursor, err |-> token.err]
      ELSE IF token.Offset > Len(items)
      THEN [page |-> << >>, next |-> EmptyCursor, err |-> ErrNone]
      ELSE [page |-> SubSeq(items, token.Offset + 1, end),
            next |-> IF end < Len(items) THEN encodeCursor(end, checksum)
                     ELSE EmptyCursor,
            err |-> ErrNone]

\* paginateResults that rejects an offset beyond the last item.
paginateResults_PastEndFails(items, limit, cursor, checksum) ==
  LET token == decodeCursor(cursor)
      end == Min(token.Offset + limit, Len(items))
  IN  IF token.err # ErrNone
      THEN [page |-> << >>, next |-> EmptyCursor, err |-> token.err]
      ELSE IF cursor # EmptyCursor /\ token.Checksum # checksum
      THEN [page |-> << >>, next |-> EmptyCursor, err |-> ErrInvalidCursor]
      ELSE IF token.Offset > Len(items)
      THEN [page |-> << >>, next |-> EmptyCursor, err |-> ErrInvalidCursor]
      ELSE [page |-> SubSeq(items, token.Offset + 1, end),
            next |-> IF end < Len(items) THEN encodeCursor(end, checksum)
                     ELSE EmptyCursor,
            err |-> ErrNone]

\* paginateResults that hands out a next cursor also when the page ends at
\* the last item.
paginateResults_NextAtEnd(items, limit, cursor, checksum) ==
  LET token == decodeCursor(cursor)
      end == Min(token.Offset + limit, Len(items))
  IN  IF token.err # ErrNone
      THEN [page |-> << >>, next |-> EmptyCursor, err |-> token.err]
      ELSE IF cursor # EmptyCursor /\ token.Checksum # checksum
      THEN [page |-> << >>, next |-> EmptyCursor, err |-> ErrInvalidCursor]
      ELSE IF token.Offset > Len(items)
      THEN [page |-> << >>, next |-> EmptyCursor, err |-> ErrNone]
      ELSE [page |-> SubSeq(items, token.Offset + 1, end),
            next |-> IF end <= Len(items) /\ token.Offset < end
                     THEN encodeCursor(end, checksum)
                     ELSE EmptyCursor,
            err |-> ErrNone]

paginateResults(items, limit, cursor, checksum) ==
  LET token == decodeCursor(cursor)
      end == Min(token.Offset + limit, Len(items))
  IN  IF token.err # ErrNone
      THEN [page |-> << >>, next |-> EmptyCursor, err |-> token.err]
      ELSE IF cursor # EmptyCursor /\ token.Checksum # checksum
      THEN [page |-> << >>, next |-> EmptyCursor, err |-> ErrInvalidCursor]
      ELSE IF token.Offset > Len(items)
      THEN [page |-> << >>, next |-> EmptyCursor, err |-> ErrNone]
      ELSE [page |-> SubSeq(items, token.Offset + 1, end),
            next |-> IF end < Len(items) THEN encodeCursor(end, checksum)
                     ELSE EmptyCursor,
            err |-> ErrNone]

\* ---------------------------------------------------------------- search
\* The score lexicalSearcher.Search gives a document for a folded query.
\* The score without the bonus for a name that equals the query.
docScore_NoExactBonus(doc, query) ==
  LET nameLower == ToLower(doc.Summary.Name)
      nsLower == ToLower(doc.Summary.Namespace)
      s1 == IF Contains(nameLower, query) THEN 100 ELSE 0
      s2 == IF Contains(nsLower, query) THEN s1 + 50 ELSE s1
  IN  IF s2 = 0 /\ Contains(doc.DocText, query) THEN 10 ELSE s2

docScore(doc, query) ==
  LET nameLower == ToLower(doc.Summary.Name)
      nsLower == ToLower(doc.Summary.Namespace)
      s1 == IF Contains(nameLower, query)
            THEN (IF nameLower = query THEN 150 ELSE 100) ELSE 0
      s2 == IF Contains(nsLower, query) THEN s1 + 50 ELSE s1
  IN  IF s2 = 0 /\ Contains(doc.DocText, query) THEN 10 ELSE s2

\* lexicalSearcher.Search: the summaries, the error, and whether it panics
\* (make with a negative capacity, or a slice expression with a negative
\* bound).
lexicalSearch(query0, limit, docs) ==
  LET query == ToLower(TrimSpace(query0))
      scoredAll == [i \in 1..Len(docs) |->
                      [summary |-> docs[i].Summary, score |-> docScore(docs[i], query)]]
      scored == SelectSeq(scoredAll, LAMBDA sr : sr.score > 0)
      LT == {p \in Range(scored) \X Range(scored) : p[1].score > p[2].score}
      sorted == InsertionSort(scored, LT)
      cut == IF Len(sorted) > limit THEN SubSeq(sorted, 1, limit) ELSE sorted
  IN  IF query = << >>
      THEN IF limit < 0
           THEN [out |-> << >>, err |-> ErrNone, panic |-> TRUE]
           ELSE [out |-> [i \in 1..Min(limit, Len(docs)) |-> docs[i].Summary],
                 err |-> ErrNone, panic |-> FALSE]
      ELSE IF Len(sorted) > limit /\ limit < 0
           THEN [out |-> << >>, err |-> ErrNone, panic |-> TRUE]
           ELSE [out |-> [i \in 1..Len(cut) |-> cut[i].summary],
                 err |-> ErrNone, panic |-> FALSE]

\* The orderings of a sequence of distinct elements.
Orderings(q) ==
  {p \in [1..Len(q) -> Range(q)] : \A i, j \in 1..Len(q) : i # j => p[i] # p[j]}

\* The orders in which a range loop can visit the keys S of a map: the
\* runtime chooses one each time.
KeyOrders(S) == Orderings(SetToSeq(S))

\* ----------------------------------------------------------------- state
Threads == {1, 2}

VARIABLES
  tools,             \* InMemoryIndex.tools: tool ID -> toolRecord
  namespaces,        \* InMemoryIndex.namespaces
  namespaceCounts,   \* InMemoryIndex.namespaceCounts
  listeners,         \* InMemoryIndex.listeners: sequence of [id, fn]
  nextListenerID,    \* InMemoryIndex.nextListenerID
  searchDocs,        \* InMemoryIndex.searchDocs: << >> is nil, << docs >> a slice
  searchDocsDirty,   \* InMemoryIndex.searchDocsDirty
  searchDocsVersion, \* InMemoryIndex.searchDocsVersion
  indexVersion,      \* InMemoryIndex.indexVersion
  searchDocsBuilds,  \* InMemoryIndex.searchDocsBuilds, counted from the last
                     \* change of the index version
  searcher,          \* InMemoryIndex.searcher
  mu,                \* InMemoryIndex.mu: the writer (0: none) and the readers
  pc,                \* where each goroutine is in its current call
  frame,             \* the arguments and locals of each goroutine's call
  ret,               \* what each goroutine's finished call returns
  stack,             \* the calls of each goroutine that wait for the current
                     \* one to return (the frames below the top of its stack)
  nmut,              \* history: successful RegisterTool/UnregisterBackend calls
  walk,              \* history: the caller's current page-by-page traversal
  seen,              \* history: what the read calls made since the last
                     \* successful mutation returned, per call and arguments
  pre,               \* history: what the lock protects as it was when each
                     \* goroutine's call was invoked (sequential specifications)
  bound              \* history: per tool ID the backends whose registration
                     \* has returned and that no returned call has removed, in
                     \* first-registration order (sequential specifications)

vars == << tools, namespaces, namespaceCounts, listeners, nextListenerID,
           searchDocs, searchDocsDirty, searchDocsVersion, indexVersion,
           searchDocsBuilds, searcher, mu, pc, frame, ret, stack, nmut, walk,
           seen, pre, bound >>

\* What the lock protects, as one value, with the count of mutations so far.
Registry ==
  [tools |-> tools, namespaces |-> namespaces, namespaceCounts |-> namespaceCounts,
   listeners |-> listeners, nextListenerID |-> nextListenerID,
   searchDocsDirty |-> searchDocsDirty, indexVersion |-> indexVersion,
   nmut |-> nmut]

NoFrame == [op |-> "none"]
NoRet == [err |-> ErrNone]
NoWalk == [kind |-> "none"]
NoPre == [nmut |-> -1]

\* The default searcher, and one that options put in its place: it has the
\* Search method the Searcher interface asks for, returns the matches in an
\* order of its choosing, and says so when asked whether it is deterministic.
lexicalSearcher == [name |-> "lexical"]
shufflingSearcher == [name |-> "shuffling", Deterministic |-> FALSE]

\* The calls whose results the caller keeps to compare, and what it keeps
\* before any call.
RepeatOps == {"Search", "ListNamespaces", "lexicalSearcher.Search"}

NoCall == [query |-> << >>, limit |-> 0 - 1, docs |-> << >>, nmut |-> 0 - 1,
           out |-> << >>, version |-> 0]

\* NewInMemoryIndex with the default selector and the searcher s.
NewInMemoryIndex(s) ==
  /\ searcher = s
  /\ stack = [t \in Threads |-> << >>]
  /\ seen = [op \in RepeatOps |-> NoCall]
  /\ tools = << >>
  /\ namespaces = {}
  /\ namespaceCounts = << >>
  /\ listeners = << >>
  /\ nextListenerID = 0
  /\ searchDocs = << >>
  /\ searchDocsDirty = FALSE
  /\ searchDocsVersion = 0
  /\ indexVersion = 0
  /\ searchDocsBuilds = 0
  /\ mu = [w |-> 0, r |-> {}]
  /\ pc = [t \in Threads |-> "idle"]
  /\ frame = [t \in Threads |-> NoFrame]
  /\ ret = [t \in Threads |-> NoRet]
  /\ nmut = 0
  /\ walk = NoWalk
  /\ pre = [t \in Threads |-> NoPre]
  /\ bound = << >>

\* NewInMemoryIndex with no options.
Init == NewInMemoryIndex(lexicalSearcher)

\* What the steps of the registry's operations leave alone: the
\* configuration, the stack below the current call, and what the caller
\* keeps of earlier results.
restVars == << searcher, stack, seen >>

dataVars == << tools, namespaces, namespaceCounts >>
listenerVars == << listeners, nextListenerID >>
cacheVars == << searchDocs, searchDocsDirty, searchDocsVersion, searchDocsBuilds >>
histVars == << nmut, walk >>

\* Map helpers: functions with a finite domain.
MapPut(m, k, v) == [x \in DOMAIN m \cup {k} |-> IF x = k THEN v ELSE m[x]]
MapDel(m, k) == [x \in DOMAIN m \ {k} |-> m[x]]

\* Calls that bump the index version and have not reached their commit yet.
MutOps == {"RegisterTool", "UnregisterBackend", "Refresh"}
Pending == {u \in Threads : pc[u] \in {"lock", "lockwait", "cs", "commit"}
                             /\ frame[u].op \in MutOps}
Budget(maxv) == indexVersion + Cardinality(Pending) < maxv

\* ------------------------------------------------------------ sync.RWMutex
\* mu.Lock, first half: the writer takes the writer slot; from now on new
\* readers wait.  With no active reader Lock returns at once.
Lock(t) ==
  /\ pc[t] = "lock"
  /\ mu.w = 0
  /\ mu' = [mu EXCEPT !.w = t]
  /\ pc' = [pc EXCEPT ![t] = IF mu.r = {} THEN "cs" ELSE "lockwait"]
  /\ UNCHANGED << dataVars, listenerVars, cacheVars, indexVersion, frame, ret, histVars >>

\* mu.Lock, second half: the writer waits until the active readers are gone.
LockWait(t) ==
  /\ pc[t] = "lockwait"
  /\ mu.r = {}
  /\ pc' = [pc EXCEPT ![t] = "cs"]
  /\ UNCHANGED << dataVars, listenerVars, cacheVars, indexVersion, mu, frame, ret, histVars >>

\* mu.RLock that lets a reader in beside a writer.
RLock_Barging(t) ==
  /\ pc[t] = "rlock"
  /\ mu' = [mu EXCEPT !.r = @ \cup {t}]
  /\ pc' = [pc EXCEPT ![t] = "rcs"]
  /\ UNCHANGED << dataVars, listenerVars, cacheVars, indexVersion, frame, ret, histVars >>

\* mu.RLock: a reader enters unless a writer holds or waits for the lock.
RLock(t) ==
  /\ pc[t] = "rlock"
  /\ mu.w = 0
  /\ mu' = [mu EXCEPT !.r = @ \cup {t}]
  /\ pc' = [pc EXCEPT ![t] = "rcs"]
  /\ UNCHANGED << dataVars, listenerVars, cacheVars, indexVersion, frame, ret, histVars >>

Unlocked == [mu EXCEPT !.w = 0]
RUnlocked(t) == [mu EXCEPT !.r = @ \ {t}]

\* ------------------------------------------------------- namespace counts
\* addNamespaceLocked that does not count.
addNamespaceLocked_Uncounted(counts, nss, namespace) ==
  [counts |-> MapPut(counts, namespace, 1), nss |-> nss \cup {namespace}]

\* addNamespaceLocked: the new namespaceCounts and namespaces.
addNamespaceLocked(counts, nss, namespace) ==
  [counts |-> MapPut(counts, namespace,
                     IF namespace \in DOMAIN counts THEN counts[namespace] + 1 ELSE 1),
   nss |-> nss \cup {namespace}]

\* removeNamespaceLocked that ignores the reference count.
removeNamespaceLocked_Uncounted(counts, nss, namespace) ==
  [counts |-> MapDel(counts, namespace), nss |-> nss \ {namespace}]

\* removeNamespaceLocked: the new namespaceCounts and namespaces.
removeNamespaceLocked(counts, nss, namespace) ==
  IF namespace \notin DOMAIN counts THEN [counts |-> counts, nss |-> nss]
  ELSE IF counts[namespace] <= 1
       THEN [counts |-> MapDel(counts, namespace), nss |-> nss \ {namespace}]
       ELSE [counts |-> MapPut(counts, namespace, counts[namespace] - 1), nss |-> nss]

\* snapshotListenersLocked that leaves out the oldest listener.
snapshotListenersLocked_SkipsFirst(ls) == SubSeq(ls, 2, Len(ls))

\* snapshotListenersLocked that copies back to front.
snapshotListenersLocked_Reversed(ls) == [i \in 1..Len(ls) |-> ls[Len(ls) + 1 - i]]

\* snapshotListenersLocked: the listener functions in list order (with their
\* tokens, to tell two registrations of one function apart).
snapshotListenersLocked(ls) == ls

\* markSearchDocsDirtyLocked that forgets the dirty flag.
markSearchDocsDirtyLocked_KeepsClean(version) == [dirty |-> FALSE, version |-> version + 1]

\* markSearchDocsDirtyLocked that leaves the version alone.
markSearchDocsDirtyLocked_SameVersion(version) == [dirty |-> TRUE, version |-> version]

\* markSearchDocsDirtyLocked: the new dirty flag and index version.
markSearchDocsDirtyLocked(version) == [dirty |-> TRUE, version |-> version + 1]

\* ------------------------------------------------------------ RegisterTool
\* RegisterTool up to idx.mu.Lock(): validation, ID, identity key, tags.
RegisterTool(t, tool, backend) ==
  /\ pc[t] = "idle"
  /\ IF ~ToolValid(tool)
     THEN /\ pc' = [pc EXCEPT ![t] = "ret"]
          /\ ret' = [ret EXCEPT ![t] = [err |-> ErrInvalidTool, notified |-> << >>]]
     ELSE IF validateBackend(backend) # ErrNone
     THEN /\ pc' = [pc EXCEPT ![t] = "ret"]
          /\ ret' = [ret EXCEPT ![t] = [err |-> validateBackend(backend),
                                        notified |-> << >>]]
     ELSE /\ pc' = [pc EXCEPT ![t] = "lock"]
          /\ ret' = ret
  /\ frame' = [frame EXCEPT ![t] =
                 [op |-> "RegisterTool", tool |-> tool, backend |-> backend,
                  toolID |-> ToolID(tool), backendKey |-> backendIdentity(backend),
                  normalizedTags |-> NormalizeTags(tool.Tags),
                  changeType |-> ChangeRegistered, version |-> 0,
                  pending |-> << >>, notified |-> << >>]]
  /\ UNCHANGED << dataVars, listenerVars, cacheVars, indexVersion, mu, histVars >>

\* updatedRecord that appends whatever the identity.
updatedRecord_Appends(record, tool, normalizedTags, backend, backendKey) ==
  LET r1 == refreshRecordDerived(
              [record EXCEPT !.tool = tool, !.normalizedTags = normalizedTags])
  IN  [r1 EXCEPT !.backendKeys = MapPut(@, backendKey, Len(r1.backends)),
                 !.backends = Append(@, backend)]

\* The record RegisterTool stores for an ID that exists: the tool and its
\* tags replaced, the backend replaced at its identity slot or appended.
updatedRecord(record, tool, normalizedTags, backend, backendKey) ==
  LET r1 == refreshRecordDerived(
              [record EXCEPT !.tool = tool, !.normalizedTags = normalizedTags])
  IN  IF backendKey \in DOMAIN r1.backendKeys
      THEN [r1 EXCEPT !.backends[r1.backendKeys[backendKey] + 1] = backend]
      ELSE [r1 EXCEPT !.backendKeys = MapPut(@, backendKey, Len(r1.backends)),
                      !.backends = Append(@, backend)]

\* The record RegisterTool creates for a new ID.
newRecord(tool, normalizedTags, backend, backendKey) ==
  refreshRecordDerived(
    [tool |-> tool, backends |-> << backend >>,
     backendKeys |-> MapPut(<< >>, backendKey, 0),
     normalizedTags |-> normalizedTags, docText |-> << >>,
     summary |-> buildSummary(tool, normalizedTags)])

\* RegisterTool inside the lock, up to markSearchDocsDirtyLocked: the record
\* is created or updated, or the call fails on a protocol-field mismatch, or
\* the comparison panics: no deferred call unlocks, so the panic leaves
\* RegisterTool (to a recover of the caller) with the lock held.
RegisterApply(t) ==
  LET f == frame[t]
      exists == f.toolID \in DOMAIN tools
  IN
  /\ pc[t] = "cs"
  /\ f.op = "RegisterTool"
  /\ IF ~exists
     THEN LET ns == addNamespaceLocked(namespaceCounts, namespaces, f.tool.Namespace)
          IN /\ tools' = MapPut(tools, f.toolID,
                                newRecord(f.tool, f.normalizedTags, f.backend, f.backendKey))
             /\ namespaceCounts' = ns.counts
             /\ namespaces' = ns.nss
             /\ pc' = [pc EXCEPT ![t] = "commit"]
             /\ UNCHANGED << mu, ret, frame >>
     ELSE \E end \in toolMCPFieldsEqual(tools[f.toolID].tool, f.tool) :
     IF end = Panics
     THEN /\ pc' = [pc EXCEPT ![t] = "ret"]
          /\ ret' = [ret EXCEPT ![t] = [err |-> ErrPanic, notified |-> << >>]]
          /\ UNCHANGED << dataVars, frame, mu >>
     ELSE IF end = IsFalse
     THEN /\ mu' = Unlocked
          /\ pc' = [pc EXCEPT ![t] = "ret"]
          /\ ret' = [ret EXCEPT ![t] = [err |-> ErrInvalidTool, notified |-> << >>]]
          /\ UNCHANGED << dataVars, frame >>
     ELSE LET record == tools[f.toolID]
              changed == record.tool.Namespace # f.tool.Namespace
              ns1 == removeNamespaceLocked(namespaceCounts, namespaces,
                                           record.tool.Namespace)
              ns2 == addNamespaceLocked(ns1.counts, ns1.nss, f.tool.Namespace)
          IN /\ tools' = MapPut(tools, f.toolID,
                                updatedRecord(record, f.tool, f.normalizedTags,
                                              f.backend, f.backendKey))
             /\ namespaceCounts' = IF changed THEN ns2.counts ELSE namespaceCounts
             /\ namespaces' = IF changed THEN ns2.nss ELSE namespaces
             /\ frame' = [frame EXCEPT ![t].changeType = ChangeUpdated]
             /\ pc' = [pc EXCEPT ![t] = "commit"]
             /\ UNCHANGED << mu, ret >>
  /\ UNCHANGED << listenerVars, cacheVars, indexVersion, histVars >>

\* The end of a mutation that notifies before it unlocks.
Commit_HoldsLock(t) ==
  LET m == markSearchDocsDirtyLocked(indexVersion) IN
  /\ pc[t] = "commit"
  /\ frame[t].op \in {"RegisterTool", "UnregisterBackend"}
  /\ searchDocsDirty' = m.dirty
  /\ indexVersion' = m.version
  /\ frame' = [frame EXCEPT ![t].version = m.version,
                            ![t].pending = snapshotListenersLocked(listeners)]
  /\ mu' = mu
  /\ pc' = [pc EXCEPT ![t] = "notify"]
  /\ nmut' = nmut + 1
  /\ searchDocsBuilds' = 0
  /\ UNCHANGED << dataVars, listenerVars, searchDocs, searchDocsVersion, ret, walk >>

\* The tail of RegisterTool and UnregisterBackend inside the lock:
\* markSearchDocsDirtyLocked, the version read, snapshotListenersLocked and
\* idx.mu.Unlock().
Commit(t) ==
  LET m == markSearchDocsDirtyLocked(indexVersion) IN
  /\ pc[t] = "commit"
  /\ frame[t].op \in {"RegisterTool", "UnregisterBackend"}
  /\ searchDocsDirty' = m.dirty
  /\ indexVersion' = m.version
  /\ frame' = [frame EXCEPT ![t].version = m.version,
                            ![t].pending = snapshotListenersLocked(listeners)]
  /\ mu' = Unlocked
  /\ pc' = [pc EXCEPT ![t] = "notify"]
  /\ nmut' = nmut + 1
  /\ searchDocsBuilds' = 0
  /\ UNCHANGED << dataVars, listenerVars, searchDocs, searchDocsVersion, ret, walk >>

\* The event with the version of before the mutation.
EventOf_OldVersion(f) ==
  [Type |-> f.changeType,
   ToolID |-> IF f.op = "Refresh" THEN << >> ELSE f.toolID,
   Backend |-> IF f.op = "Refresh" THEN ZeroBackend ELSE f.backend,
   Version |-> f.version - 1]

\* The event a mutating call hands to its listeners.
EventOf(f) ==
  [Type |-> f.changeType,
   ToolID |-> IF f.op = "Refresh" THEN << >> ELSE f.toolID,
   Backend |-> IF f.op = "Refresh" THEN ZeroBackend ELSE f.backend,
   Version |-> f.version]

\* notifyListeners, one listener per step, after the lock is released; the
\* call returns nil when the snapshot is exhausted.  notified keeps which
\* listener was called with which event.
Notify(t) ==
  /\ pc[t] = "notify"
  /\ IF frame[t].pending = << >>
     THEN /\ pc' = [pc EXCEPT ![t] = "ret"]
          /\ ret' = [ret EXCEPT ![t] = [err |-> ErrNone,
                                        notified |-> frame[t].notified,
                                        event |-> EventOf(frame[t]),
                                        version |-> frame[t].version]]
          /\ frame' = frame
     ELSE /\ frame' = [frame EXCEPT ![t].pending = Tail(@),
                                    ![t].notified =
                                       Append(@, [id |-> frame[t].pending[1].id,
                                                  event |-> EventOf(frame[t])])]
          /\ UNCHANGED << pc, ret >>
  /\ UNCHANGED << dataVars, listenerVars, cacheVars, indexVersion, mu, histVars >>

\* ------------------------------------------------------- UnregisterBackend
\* SplitN that does not split.
SplitProvider_Whole(backendID) ==
  [providerID |-> backendID, providerToolID |-> backendID]

\* strings.SplitN(backendID, ":", 2) when backendID contains ":".
SplitProvider(backendID) ==
  LET i == IndexOf(backendID, ":")
  IN  [providerID |-> SubSeq(backendID, 1, i - 1),
       providerToolID |-> SubSeq(backendID, i + 1, Len(backendID))]

\* UnregisterBackend up to idx.mu.Lock(): the provider backendID format.
UnregisterBackend(t, toolID, kind, backendID) ==
  LET bad == /\ kind = BackendKindProvider
             /\ \/ ~Contains(backendID, << ":" >>)
                \/ SplitProvider(backendID).providerID = << >>
                \/ SplitProvider(backendID).providerToolID = << >>
      parts == IF kind = BackendKindProvider /\ ~bad THEN SplitProvider(backendID)
               ELSE [providerID |-> << >>, providerToolID |-> << >>]
  IN
  /\ pc[t] = "idle"
  /\ IF bad
     THEN /\ pc' = [pc EXCEPT ![t] = "ret"]
          /\ ret' = [ret EXCEPT ![t] = [err |-> ErrInvalidBackend, notified |-> << >>]]
     ELSE /\ pc' = [pc EXCEPT ![t] = "lock"]
          /\ ret' = ret
  /\ frame' = [frame EXCEPT ![t] =
                 [op |-> "UnregisterBackend", toolID |-> toolID, kind |-> kind,
                  backendID |-> backendID, providerID |-> parts.providerID,
                  providerToolID |-> parts.providerToolID,
                  backend |-> ZeroBackend, changeType |-> ChangeBackendRemoved,
                  version |-> 0, pending |-> << >>, notified |-> << >>]]
  /\ UNCHANGED << dataVars, listenerVars, cacheVars, indexVersion, mu, histVars >>

\* The identity key UnregisterBackend looks for.
searchKeyOf(kind, backendID, providerID, providerToolID) ==
  CASE kind = BackendKindMCP -> encodeIdentity(<< kind, backendID >>)
    [] kind = BackendKindProvider -> encodeIdentity(<< kind, providerID, providerToolID >>)
    [] kind = BackendKindLocal -> encodeIdentity(<< kind, backendID >>)
    [] OTHER -> << >>

\* removedRecord that does not shift the later positions down.
removedRecord_NoShift(record, searchKey, foundIdx) ==
  [record EXCEPT
     !.backends = SubSeq(@, 1, foundIdx) \o SubSeq(@, foundIdx + 2, Len(@)),
     !.backendKeys = MapDel(@, searchKey)]

\* The record after the backend at 0-based position foundIdx is removed:
\* the key deleted, the slice compacted, the later positions shifted down.
removedRecord(record, searchKey, foundIdx) ==
  LET keys == MapDel(record.backendKeys, searchKey)
  IN  [record EXCEPT
         !.backends = SubSeq(@, 1, foundIdx) \o SubSeq(@, foundIdx + 2, Len(@)),
         !.backendKeys = [k \in DOMAIN keys |->
                            IF keys[k] > foundIdx THEN keys[k] - 1 ELSE keys[k]]]

\* UnregisterBackend inside the lock, up to markSearchDocsDirtyLocked.
UnregisterApply(t) ==
  LET f == frame[t]
      searchKey == searchKeyOf(f.kind, f.backendID, f.providerID, f.providerToolID)
  IN
  /\ pc[t] = "cs"
  /\ f.op = "UnregisterBackend"
  /\ IF f.toolID \notin DOMAIN tools
     THEN /\ mu' = Unlocked
          /\ pc' = [pc EXCEPT ![t] = "ret"]
          /\ ret' = [ret EXCEPT ![t] = [err |-> ErrNotFound, notified |-> << >>]]
          /\ UNCHANGED << dataVars, frame >>
     ELSE IF searchKey \notin DOMAIN tools[f.toolID].backendKeys
     THEN /\ mu' = Unlocked
          /\ pc' = [pc EXCEPT ![t] = "ret"]
          /\ ret' = [ret EXCEPT ![t] = [err |-> ErrNotFound, notified |-> << >>]]
          /\ UNCHANGED << dataVars, frame >>
     ELSE LET record == tools[f.toolID]
              foundIdx == record.backendKeys[searchKey]
              after == removedRecord(record, searchKey, foundIdx)
              ns == removeNamespaceLocked(namespaceCounts, namespaces,
                                          record.tool.Namespace)
          IN /\ IF Len(after.backends) = 0
                THEN /\ tools' = MapDel(tools, f.toolID)
                     /\ namespaceCounts' = ns.counts
                     /\ namespaces' = ns.nss
                ELSE /\ tools' = MapPut(tools, f.toolID, after)
                     /\ UNCHANGED << namespaceCounts, namespaces >>
             /\ frame' = [frame EXCEPT
                            ![t].backend = record.backends[foundIdx + 1],
                            ![t].changeType = IF Len(after.backends) = 0
                                              THEN ChangeToolRemoved
                                              ELSE ChangeBackendRemoved]
             /\ pc' = [pc EXCEPT ![t] = "commit"]
             /\ UNCHANGED << mu, ret >>
  /\ UNCHANGED << listenerVars, cacheVars, indexVersion, histVars >>

\* ------------------------------------------------------- GetTool and others
\* A read call up to idx.mu.RLock().
ReadCall(t, f) ==
  /\ pc[t] = "idle"
  /\ pc' = [pc EXCEPT ![t] = "rlock"]
  /\ frame' = [frame EXCEPT ![t] = f]
  /\ UNCHANGED << dataVars, listenerVars, cacheVars, indexVersion, mu, ret, histVars >>

GetTool(t, id) ==
  ReadCall(t, [op |-> "GetTool", id |-> id])

GetAllBackends(t, id) ==
  ReadCall(t, [op |-> "GetAllBackends", id |-> id])

ListNamespaces(t) ==
  ReadCall(t, [op |-> "ListNamespaces"])

\* The configured selector: DefaultBackendSelector unless options replace it.
backendSelector(backends) == DefaultBackendSelector(backends)

\* sort.Strings that leaves the slice as it is.
sortStrings_AsIs(q) == q

\* sort.Strings.
sortStrings(q) ==
  InsertionSort(q, {p \in Range(q) \X Range(q) : StrLess(p[1], p[2])})

\* The namespaces in ascending order: what the loop over idx.namespaces and
\* sort.Strings give whatever the order of the loop.
sortedNamespaces(nss) == sortStrings(SetToSeq(nss))

\* What GetTool returns on the record map recs (a missing tool is << >>).
getTool(recs, id) ==
  IF id \notin DOMAIN recs
  THEN [err |-> ErrNotFound, tool |-> << >>, backend |-> ZeroBackend]
  ELSE [err |-> ErrNone, tool |-> << recs[id].tool >>,
        backend |-> backendSelector(recs[id].backends)]

\* What GetAllBackends returns on the record map recs.
getAllBackends(recs, id) ==
  IF id \notin DOMAIN recs
  THEN [err |-> ErrNotFound, backends |-> << >>]
  ELSE [err |-> ErrNone, backends |-> recs[id].backends]

\* What ListNamespaces returns on the namespace set nss.
listNamespaces(nss) == [err |-> ErrNone, out |-> sortedNamespaces(nss)]

\* ... when its loop visits the namespaces in the given order.
listNamespacesIn(order) == [err |-> ErrNone, out |-> sortStrings(order)]

\* GetTool, GetAllBackends and ListNamespaces inside the read lock, with the
\* deferred idx.mu.RUnlock().
ReadApply(t) ==
  LET f == frame[t] IN
  /\ pc[t] = "rcs"
  /\ f.op \in {"GetTool", "GetAllBackends", "ListNamespaces"}
  /\ \E order \in KeyOrders(namespaces) :
        ret' = [ret EXCEPT ![t] =
          CASE f.op = "GetTool" -> getTool(tools, f.id)
            [] f.op = "GetAllBackends" -> getAllBackends(tools, f.id)
            [] OTHER -> listNamespacesIn(order)]
  /\ mu' = RUnlocked(t)
  /\ pc' = [pc EXCEPT ![t] = "ret"]
  /\ UNCHANGED << dataVars, listenerVars, cacheVars, indexVersion, frame, histVars >>

\* ------------------------------------------------- the search-document cache
\* rebuildSearchDocsLocked that sorts by descending ID.
rebuildSearchDocsLocked_Descending(recs, order) ==
  LET docs == [i \in 1..Len(order) |->
                 [ID |-> order[i], DocText |-> recs[order[i]].docText,
                  Summary |-> recs[order[i]].summary]]
  IN  InsertionSort(docs, {p \in Range(docs) \X Range(docs) : StrLess(p[2].ID, p[1].ID)})

\* The documents rebuildSearchDocsLocked builds when its loop visits the
\* records in the given order: one per record, then sorted by ID.
rebuildSearchDocsLocked(recs, order) ==
  LET docs == [i \in 1..Len(order) |->
                 [ID |-> order[i], DocText |-> recs[order[i]].docText,
                  Summary |-> recs[order[i]].summary]]
  IN  InsertionSort(docs, {p \in Range(docs) \X Range(docs) : StrLess(p[1].ID, p[2].ID)})

\* The documents of the records sorted by ID: what rebuildSearchDocsLocked
\* builds whatever the order of its loop.
rebuiltDocs(recs) == rebuildSearchDocsLocked(recs, SetToSeq(DOMAIN recs))

\* The condition under which snapshotSearchDocs and ensureSearchDocsLocked
\* serve the cache as it is.
cacheFresh(docs, dirty, docsVersion, version) ==
  ~dirty /\ docs # << >> /\ docsVersion = version

\* ensureSearchDocsLocked that rebuilds whatever it finds.
ensureRebuilds_Always(docs, dirty, docsVersion, version) == TRUE

\* ensureSearchDocsLocked: whether it rebuilds.
ensureRebuilds(docs, dirty, docsVersion, version) ==
  ~cacheFresh(docs, dirty, docsVersion, version)

SearchOps == {"Search", "SearchPage"}

\* Search up to the first idx.mu.RLock() of snapshotSearchDocs.
Search(t, query, limit) ==
  ReadCall(t, [op |-> "Search", query |-> query, limit |-> limit,
               cursor |-> EmptyCursor, cont |-> FALSE, track |-> FALSE])

\* SearchPage up to the first idx.mu.RLock(); limit <= 0 fails before it.
\* track tells whether the caller keeps the returned cursor.
SearchPage(t, query, limit, cursor, track) ==
  LET f == [op |-> "SearchPage", query |-> query, limit |-> limit,
            cursor |-> cursor,
            cont |-> walk.kind # "none" /\ cursor # EmptyCursor /\ cursor = walk.next,
            track |-> track]
  IN  IF limit <= 0
      THEN /\ pc[t] = "idle"
           /\ pc' = [pc EXCEPT ![t] = "ret"]
           /\ frame' = [frame EXCEPT ![t] = f]
           /\ ret' = [ret EXCEPT ![t] = [err |-> ErrPlain, out |-> << >>,
                                         next |-> EmptyCursor]]
           /\ UNCHANGED << dataVars, listenerVars, cacheVars, indexVersion, mu, histVars >>
      ELSE ReadCall(t, f)

\* What idx.searcher.Search can return: the one result of the lexical
\* searcher, or any ordering of it from the shuffling searcher.
searcherSearch(s, query, limit, docs) ==
  LET r == lexicalSearch(query, limit, docs)
  IN  IF s = lexicalSearcher THEN {r}
      ELSE {[r EXCEPT !.out = p] : p \in Orderings(r.out)}

\* The limit Search and SearchPage hand to the searcher.
searcherLimit(f, docs) == IF f.op = "Search" THEN f.limit ELSE Len(docs)

\* What Search and SearchPage make of the searcher's result r: Search
\* returns it, SearchPage paginates it.
searchResultOf(f, r, docs, version, path) ==
  IF f.op = "Search"
  THEN [err |-> r.err, out |-> r.out, next |-> EmptyCursor, panic |-> r.panic,
        docs |-> docs, version |-> version, path |-> path]
  ELSE LET pg == paginateResults(r.out, f.limit, f.cursor, version)
       IN  [err |-> pg.err, out |-> pg.page, next |-> pg.next, panic |-> r.panic,
            docs |-> docs, version |-> version, path |-> path]

\* What Search and SearchPage return with the default searcher once
\* snapshotSearchDocs has handed them docs and version: the searcher runs on
\* the copy, SearchPage paginates.
searchResult(f, docs, version, path) ==
  searchResultOf(f, lexicalSearch(f.query, searcherLimit(f, docs), docs),
                 docs, version, path)

\* ... and what they can return with the configured searcher.
searchResults(f, docs, version, path) ==
  {searchResultOf(f, r, docs, version, path) :
     r \in searcherSearch(searcher, f.query, searcherLimit(f, docs), docs)}

\* snapshotSearchDocs, fast path: under the read lock, copy the cache when it
\* is fresh; otherwise drop the read lock and go for the exclusive lock.
SnapshotFast(t) ==
  /\ pc[t] = "rcs"
  /\ frame[t].op \in SearchOps
  /\ mu' = RUnlocked(t)
  /\ IF cacheFresh(searchDocs, searchDocsDirty, searchDocsVersion, indexVersion)
     THEN /\ pc' = [pc EXCEPT ![t] = "ret"]
          /\ \E r \in searchResults(frame[t], searchDocs[1], searchDocsVersion, "fast") :
                ret' = [ret EXCEPT ![t] = r]
     ELSE /\ pc' = [pc EXCEPT ![t] = "lock"]
          /\ ret' = ret
  /\ UNCHANGED << dataVars, listenerVars, cacheVars, indexVersion, frame, histVars >>

\* snapshotSearchDocs whose rebuild counts as a change of the index.
SnapshotSlow_BumpsVersion(t) ==
  \E order \in KeyOrders(DOMAIN tools) :
  LET fresh == ~ensureRebuilds(searchDocs, searchDocsDirty, searchDocsVersion,
                               indexVersion)
      docs == IF fresh THEN searchDocs[1] ELSE rebuildSearchDocsLocked(tools, order)
  IN
  /\ pc[t] = "cs"
  /\ frame[t].op \in SearchOps
  /\ IF fresh
     THEN UNCHANGED cacheVars
     ELSE /\ searchDocs' = << docs >>
          /\ searchDocsDirty' = FALSE
          /\ searchDocsVersion' = indexVersion
          /\ searchDocsBuilds' = searchDocsBuilds + 1
  /\ mu' = Unlocked
  /\ pc' = [pc EXCEPT ![t] = "ret"]
  /\ \E r \in searchResults(frame[t], docs, searchDocsVersion',
                             IF fresh THEN "reused" ELSE "rebuilt") :
        ret' = [ret EXCEPT ![t] = r]
  /\ indexVersion' = indexVersion + 1
  /\ UNCHANGED << dataVars, listenerVars, frame, histVars >>

\* snapshotSearchDocs, slow path: under the exclusive lock,
\* ensureSearchDocsLocked rebuilds unless the cache is fresh by now, then the
\* cache is copied and the lock released.
SnapshotSlow(t) ==
  \E order \in KeyOrders(DOMAIN tools) :
  LET fresh == ~ensureRebuilds(searchDocs, searchDocsDirty, searchDocsVersion,
                               indexVersion)
      docs == IF fresh THEN searchDocs[1] ELSE rebuildSearchDocsLocked(tools, order)
  IN
  /\ pc[t] = "cs"
  /\ frame[t].op \in SearchOps
  /\ IF fresh
     THEN UNCHANGED cacheVars
     ELSE /\ searchDocs' = << docs >>
          /\ searchDocsDirty' = FALSE
          /\ searchDocsVersion' = indexVersion
          /\ searchDocsBuilds' = searchDocsBuilds + 1
  /\ mu' = Unlocked
  /\ pc' = [pc EXCEPT ![t] = "ret"]
  /\ \E r \in searchResults(frame[t], docs, searchDocsVersion',
                             IF fresh THEN "reused" ELSE "rebuilt") :
        ret' = [ret EXCEPT ![t] = r]
  /\ UNCHANGED << dataVars, listenerVars, indexVersion, frame, histVars >>

\* ------------------------------------------------------ ListNamespacesPage
\* ListNamespacesPage up to idx.mu.RLock(); limit <= 0 fails before it.
ListNamespacesPage(t, limit, cursor, track) ==
  LET f == [op |-> "ListNamespacesPage", query |-> << >>, limit |-> limit,
            cursor |-> cursor,
            cont |-> walk.kind # "none" /\ cursor # EmptyCursor /\ cursor = walk.next,
            track |-> track]
  IN  IF limit <= 0
      THEN /\ pc[t] = "idle"
           /\ pc' = [pc EXCEPT ![t] = "ret"]
           /\ frame' = [frame EXCEPT ![t] = f]
           /\ ret' = [ret EXCEPT ![t] = [err |-> ErrPlain, out |-> << >>,
                                         next |-> EmptyCursor]]
           /\ UNCHANGED << dataVars, listenerVars, cacheVars, indexVersion, mu, histVars >>
      ELSE ReadCall(t, f)

\* ListNamespacesPage inside the read lock (version and namespaces are read
\* together), then the sort and the pagination on the copy.
NamespacesPageApply(t) ==
  /\ pc[t] = "rcs"
  /\ frame[t].op = "ListNamespacesPage"
  /\ mu' = RUnlocked(t)
  /\ pc' = [pc EXCEPT ![t] = "ret"]
  /\ \E order \in KeyOrders(namespaces) :
        LET pg == paginateResults(sortStrings(order), frame[t].limit,
                                  frame[t].cursor, indexVersion)
        IN  ret' = [ret EXCEPT ![t] =
                      [err |-> pg.err, out |-> pg.page, next |-> pg.next,
                       version |-> indexVersion, nss |-> namespaces]]
  /\ UNCHANGED << dataVars, listenerVars, cacheVars, indexVersion, frame, histVars >>

\* ---------------------------------------------------- listeners and Refresh
\* OnChange up to idx.mu.Lock(); a nil listener (<< >>) returns the no-op
\* unsubscribe function (token 0) at once.
OnChange(t, fn) ==
  /\ pc[t] = "idle"
  /\ frame' = [frame EXCEPT ![t] = [op |-> "OnChange", fn |-> fn]]
  /\ IF fn = << >>
     THEN /\ pc' = [pc EXCEPT ![t] = "ret"]
          /\ ret' = [ret EXCEPT ![t] = [err |-> ErrNone, token |-> 0]]
     ELSE /\ pc' = [pc EXCEPT ![t] = "lock"]
          /\ ret' = ret
  /\ UNCHANGED << dataVars, listenerVars, cacheVars, indexVersion, mu, histVars >>

\* OnChange inside the lock: a fresh token, the entry appended.
OnChangeApply(t) ==
  /\ pc[t] = "cs"
  /\ frame[t].op = "OnChange"
  /\ nextListenerID' = nextListenerID + 1
  /\ listeners' = Append(listeners, [id |-> nextListenerID + 1, fn |-> frame[t].fn[1]])
  /\ mu' = Unlocked
  /\ pc' = [pc EXCEPT ![t] = "ret"]
  /\ ret' = [ret EXCEPT ![t] = [err |-> ErrNone, token |-> nextListenerID + 1]]
  /\ UNCHANGED << dataVars, cacheVars, indexVersion, frame, histVars >>

\* The unsubscribe functions callers hold: tokens of OnChange calls that
\* have returned.
HandedOut ==
  {id \in 1..nextListenerID :
     ~\E u \in Threads : /\ pc[u] = "ret" /\ frame[u].op = "OnChange"
                         /\ ret[u].token = id}

\* Calling an unsubscribe function, up to idx.mu.Lock() in removeListener;
\* token 0 is the no-op function OnChange(nil) returns.
Unsubscribe(t, token) ==
  /\ pc[t] = "idle"
  /\ token = 0 \/ token \in HandedOut
  /\ frame' = [frame EXCEPT ![t] = [op |-> "Unsubscribe", token |-> token]]
  /\ IF token = 0
     THEN /\ pc' = [pc EXCEPT ![t] = "ret"]
          /\ ret' = [ret EXCEPT ![t] = [err |-> ErrNone]]
     ELSE /\ pc' = [pc EXCEPT ![t] = "lock"]
          /\ ret' = ret
  /\ UNCHANGED << dataVars, listenerVars, cacheVars, indexVersion, mu, histVars >>

\* removeListener that takes the token for a position in the list.
removeListener_ByPosition(ls, id) ==
  IF id \in 1..Len(ls)
  THEN SubSeq(ls, 1, id - 1) \o SubSeq(ls, id + 1, Len(ls))
  ELSE ls

\* removeListener's loop: the first entry with the token is cut out.
removeListener(ls, id) ==
  IF \E i \in 1..Len(ls) : ls[i].id = id
  THEN LET i == CHOOSE j \in 1..Len(ls) :
                  ls[j].id = id /\ \A k \in 1..(j - 1) : ls[k].id # id
       IN  SubSeq(ls, 1, i - 1) \o SubSeq(ls, i + 1, Len(ls))
  ELSE ls

\* removeListener inside the lock, with the deferred Unlock.
UnsubscribeApply(t) ==
  /\ pc[t] = "cs"
  /\ frame[t].op = "Unsubscribe"
  /\ listeners' = removeListener(listeners, frame[t].token)
  /\ mu' = Unlocked
  /\ pc' = [pc EXCEPT ![t] = "ret"]
  /\ ret' = [ret EXCEPT ![t] = [err |-> ErrNone]]
  /\ UNCHANGED << dataVars, nextListenerID, cacheVars, indexVersion, frame, histVars >>

\* Refresh up to idx.mu.Lock().
Refresh(t) ==
  /\ pc[t] = "idle"
  /\ pc' = [pc EXCEPT ![t] = "lock"]
  /\ frame' = [frame EXCEPT ![t] =
                 [op |-> "Refresh", changeType |-> ChangeRefreshed, version |-> 0,
                  pending |-> << >>, notified |-> << >>]]
  /\ UNCHANGED << dataVars, listenerVars, cacheVars, indexVersion, mu, ret, histVars >>

\* Refresh that rebuilds the cache at the version the index has.
RefreshApply_SameVersion(t) ==
  /\ pc[t] = "cs"
  /\ frame[t].op = "Refresh"
  /\ indexVersion' = indexVersion
  /\ \E order \in KeyOrders(DOMAIN tools) :
        searchDocs' = << rebuildSearchDocsLocked(tools, order) >>
  /\ searchDocsDirty' = FALSE
  /\ searchDocsVersion' = indexVersion
  /\ searchDocsBuilds' = 1
  /\ frame' = [frame EXCEPT ![t].version = indexVersion,
                            ![t].pending = snapshotListenersLocked(listeners)]
  /\ mu' = Unlocked
  /\ pc' = [pc EXCEPT ![t] = "notify"]
  /\ UNCHANGED << dataVars, listenerVars, ret, histVars >>

\* Refresh that marks the cache dirty and leaves the rebuild to the next
\* search.
RefreshApply_Lazy(t) ==
  LET m == markSearchDocsDirtyLocked(indexVersion) IN
  /\ pc[t] = "cs"
  /\ frame[t].op = "Refresh"
  /\ indexVersion' = m.version
  /\ searchDocsDirty' = m.dirty
  /\ searchDocsBuilds' = 0
  /\ frame' = [frame EXCEPT ![t].version = m.version,
                            ![t].pending = snapshotListenersLocked(listeners)]
  /\ mu' = Unlocked
  /\ pc' = [pc EXCEPT ![t] = "notify"]
  /\ UNCHANGED << dataVars, listenerVars, searchDocs, searchDocsVersion, ret, histVars >>

\* Refresh inside the lock: mark dirty, rebuild, read the version, snapshot
\* the listeners, unlock.
RefreshApply(t) ==
  LET m == markSearchDocsDirtyLocked(indexVersion) IN
  /\ pc[t] = "cs"
  /\ frame[t].op = "Refresh"
  /\ indexVersion' = m.version
  /\ \E order \in KeyOrders(DOMAIN tools) :
        searchDocs' = << rebuildSearchDocsLocked(tools, order) >>
  /\ searchDocsDirty' = FALSE
  /\ searchDocsVersion' = m.version
  /\ searchDocsBuilds' = 1
  /\ frame' = [frame EXCEPT ![t].version = m.version,
                            ![t].pending = snapshotListenersLocked(listeners)]
  /\ mu' = Unlocked
  /\ pc' = [pc EXCEPT ![t] = "notify"]
  /\ UNCHANGED << dataVars, listenerVars, ret, histVars >>

\* ------------------------------------------------------------- the caller
PageOps == {"SearchPage", "ListNamespacesPage"}

\* The traversal the caller is in after a paginated call returned: a call
\* with the empty cursor starts one, a call with the cursor of the last page
\* and the same arguments extends it.
walkAfter(w, f, r) ==
  IF ~(f.op \in PageOps /\ f.track /\ r.err = ErrNone) THEN w
  ELSE IF f.cursor = EmptyCursor
  THEN [kind |-> f.op, query |-> f.query, limit |-> f.limit, acc |-> r.out,
        next |-> r.next, pages |-> 1, start |-> nmut, epoch |-> nmut]
  ELSE IF f.cont /\ w.kind = f.op /\ w.query = f.query /\ w.limit = f.limit
  THEN [w EXCEPT !.acc = @ \o r.out, !.next = r.next, !.pages = @ + 1,
                 !.epoch = nmut]
  ELSE w

\* The call returns to its caller, which keeps the cursor it got.
Return(t) ==
  /\ pc[t] = "ret"
  /\ pc' = [pc EXCEPT ![t] = "idle"]
  /\ walk' = walkAfter(walk, frame[t], ret[t])
  /\ frame' = [frame EXCEPT ![t] = NoFrame]
  /\ ret' = [ret EXCEPT ![t] = NoRet]
  /\ UNCHANGED << dataVars, listenerVars, cacheVars, indexVersion, mu, nmut >>

\* ----------------------------------------------------------------- inputs
SchemaRaw == JRaw(<< "1" >>)

\* "n:a" with tag G; the same with tag T; the same with another description.
ToolA == MkTool(<< "a" >>, << "n" >>, << "x" >>, SchemaRaw, << << "G" >> >>)
ToolATags == MkTool(<< "a" >>, << "n" >>, << "x" >>, SchemaRaw, << << "T" >>, << " ", "t" >> >>)
ToolADesc == MkTool(<< "a" >>, << "n" >>, << "y" >>, SchemaRaw, << << "G" >> >>)
\* ... and the same with another input schema.
ToolASchema == MkTool(<< "a" >>, << "n" >>, << "x" >>, JRaw(<< "2" >>), << << "G" >> >>)
\* "n:a" with a []string in its metadata; the same with other tags; the
\* same with another []string.
ToolAMeta == [ToolA EXCEPT !.Meta = [k |-> JStrings(<< << "v" >> >>)]]
ToolAMetaTags == [ToolAMeta EXCEPT !.Tags = << << "T" >> >>]
ToolAMeta2 == [ToolA EXCEPT !.Meta = [k |-> JStrings(<< << "w" >> >>)]]
\* "n:b" shares the namespace of "n:a"; "a" has the empty namespace.
ToolB == MkTool(<< "b" >>, << "n" >>, << "a", "b" >>, SchemaRaw, << >>)
ToolBare == MkTool(<< "a" >>, << >>, << "b" >>, SchemaRaw, << >>)
ToolNoName == MkTool(<< >>, << "n" >>, << "x" >>, SchemaRaw, << >>)

ToolIDs == {ToolID(ToolA), ToolID(ToolB), ToolID(ToolBare)}

BackendLocal == makeLocalBackend(<< "l" >>)
BackendLocal2 == makeLocalBackend(<< "k" >>)
BackendProvider == makeProviderBackend(<< "p" >>, << "t" >>)
BackendMCP == makeMCPBackend(<< "m" >>)

\* (kind, backendID) arguments of UnregisterBackend.
TargetLocal == << BackendKindLocal, << "l" >> >>
TargetProvider == << BackendKindProvider, << "p", ":", "t" >> >>
TargetMCP == << BackendKindMCP, << "m" >> >>
TargetMalformed == << BackendKindProvider, << "p" >> >>

\* ------------------------------------------------- the registry specification
\* (tool, backend) arguments of RegisterTool: "n:a" with each kind of
\* backend, its re-registrations, a second tool of the namespace, and calls
\* that fail validation.
RegInputs ==
  ({ToolA} \X {BackendLocal, BackendLocal2, BackendProvider, BackendMCP, ZeroBackend})
    \cup ({ToolATags} \X {BackendLocal, BackendMCP})
    \cup ({ToolADesc, ToolASchema, ToolB, ToolNoName} \X {BackendLocal})
    \cup ({ToolAMeta, ToolAMetaTags, ToolAMeta2} \X {BackendLocal})

\* (toolID, (kind, backendID)) arguments of UnregisterBackend.
UnregInputs ==
  ({ToolID(ToolA)} \X {TargetLocal, TargetProvider, TargetMCP, TargetMalformed})
    \cup ({ToolID(ToolB), ToolID(ToolBare)} \X {TargetLocal})

Queries == { << >>, << "G" >> }
Limits == {0, MaxLimit}
RegGetIDs == {ToolID(ToolA), ToolID(ToolB)}
Listeners == { << >>, << "f" >> }

\* The steps every call takes after its first one, up to its return value.
Step(t) ==
  \/ Lock(t)
  \/ LockWait(t)
  \/ RLock(t)
  \/ RegisterApply(t)
  \/ UnregisterApply(t)
  \/ Commit(t)
  \/ Notify(t)
  \/ ReadApply(t)
  \/ SnapshotFast(t)
  \/ SnapshotSlow(t)
  \/ NamespacesPageApply(t)
  \/ OnChangeApply(t)
  \/ UnsubscribeApply(t)
  \/ RefreshApply(t)

\* The steps of the calls a single goroutine makes on the registry: with no
\* second goroutine a writer never waits for readers.
RegistryStep(t) ==
  \/ Lock(t)
  \/ RLock(t)
  \/ RegisterApply(t)
  \/ UnregisterApply(t)
  \/ Commit(t)
  \/ Notify(t)
  \/ ReadApply(t)
  \/ SnapshotFast(t)
  \/ SnapshotSlow(t)
  \/ OnChangeApply(t)
  \/ UnsubscribeApply(t)
  \/ RefreshApply(t)

\* The steps of the calls a single goroutine makes when it pages.
PageStep(t) ==
  \/ Lock(t)
  \/ RLock(t)
  \/ RegisterApply(t)
  \/ UnregisterApply(t)
  \/ Commit(t)
  \/ Notify(t)
  \/ SnapshotFast(t)
  \/ SnapshotSlow(t)
  \/ NamespacesPageApply(t)
  \/ RefreshApply(t)
  \/ ReadApply(t)

\* The identity fields of a backend: those of the pointer its kind selects.
IdentityFields(b) ==
  CASE b.Kind = BackendKindMCP /\ Len(b.MCP) > 0 -> << b.MCP[1].ServerName >>
    [] b.Kind = BackendKindProvider /\ Len(b.Provider) > 0 ->
         << b.Provider[1].ProviderID, b.Provider[1].ToolID >>
    [] b.Kind = BackendKindLocal /\ Len(b.Local) > 0 -> << b.Local[1].Name >>
    [] OTHER -> << >>

\* Two backends are the same logical backend: same kind, same identity
\* fields.
SameBackend(a, b) ==
  /\ a.Kind = b.Kind
  /\ IdentityFields(a) = IdentityFields(b)

\* The backend that (kind, backendID) names in UnregisterBackend.
Names(kind, backendID, b) ==
  /\ b.Kind = kind
  /\ CASE kind = BackendKindMCP -> b.MCP[1].ServerName = backendID
       [] kind = BackendKindLocal -> b.Local[1].Name = backendID
       [] kind = BackendKindProvider ->
            b.Provider[1].ProviderID \o << ":" >> \o b.Provider[1].ToolID = backendID
       [] OTHER -> FALSE

\* The caller's book of bound backends after a call returned.
boundAfter(bd, f, r) ==
  IF r.err # ErrNone THEN bd
  ELSE IF f.op = "RegisterTool"
  THEN LET old == IF f.toolID \in DOMAIN bd THEN bd[f.toolID] ELSE << >>
           new == IF \E i \in 1..Len(old) : SameBackend(old[i], f.backend)
                  THEN [i \in 1..Len(old) |->
                          IF SameBackend(old[i], f.backend) THEN f.backend ELSE old[i]]
                  ELSE Append(old, f.backend)
       IN  MapPut(bd, f.toolID, new)
  ELSE IF f.op = "UnregisterBackend"
  THEN LET left == SelectSeq(bd[f.toolID],
                             LAMBDA b : ~Names(f.kind, f.backendID, b))
       IN  IF left = << >> THEN MapDel(bd, f.toolID) ELSE MapPut(bd, f.toolID, left)
  ELSE bd

\* The history of a sequential caller: the registry at the call's
\* invocation, and the book of bound backends at its return.
Invoked(t) ==
  /\ pre' = [pre EXCEPT ![t] = Registry]
  /\ UNCHANGED << bound, restVars >>
Returned(t) ==
  /\ stack[t] = << >>
  /\ UNCHANGED restVars
  /\ pre' = [pre EXCEPT ![t] = NoPre]
  /\ bound' = boundAfter(bound, frame[t], ret[t])

\* One goroutine calls the registry operations one after the other.
Next ==
  \E t \in {1} :
     \/ /\ \/ \E in \in RegInputs :
                Budget(MaxVersion) /\ RegisterTool(t, in[1], in[2])
           \/ \E in \in UnregInputs :
                Budget(MaxVersion) /\ UnregisterBackend(t, in[1], in[2][1], in[2][2])
           \/ \E id \in RegGetIDs : GetTool(t, id)
           \/ \E id \in RegGetIDs : GetAllBackends(t, id)
           \/ ListNamespaces(t)
           \/ \E query \in Queries, limit \in Limits : Search(t, query, limit)
           \/ \E fn \in Listeners : nextListenerID < MaxListenerID /\ OnChange(t, fn)
           \/ \E token \in 0..MaxListenerID : Unsubscribe(t, token)
           \/ Budget(MaxVersion) /\ Refresh(t)
        /\ Invoked(t)
     \/ RegistryStep(t) /\ UNCHANGED << pre, bound, restVars >>
     \/ Return(t) /\ Returned(t)

Spec == Init /\ [][Next]_vars

\* ----------------------------------------------- the pagination specification
\* One goroutine registers up to three tools, re-registers and unregisters,
\* refreshes, and pages through search results and namespaces with the
\* cursors it was given, or with malformed ones.
PageRegInputs == {ToolA, ToolB, ToolBare} \X {BackendLocal}
PageUnregInputs == {ToolID(ToolA), ToolID(ToolB)} \X {TargetLocal}
PageQueries == { << >>, << "b", " " >> }
PageLimits == 0..MaxLimit
\* Queries that are empty once trimmed.
BlankQueries == { << >>, << " " >> }

\* The cursors a caller presents: none or the one of its last page ...
PageCursors ==
  {EmptyCursor} \cup (IF walk.kind = "none" THEN {} ELSE {walk.next})

\* ... or one that is not base64, not JSON, or carries a negative offset or
\* checksum ...
BadCursors ==
  {GarbageCursor, NotJSONCursor, encodeCursor(-1, indexVersion),
   [k |-> "token", off |-> 0, sum |-> -1]}

\* ... or one of its own making that decodes to a token: "{}" or "null".
HandmadeCursors == {encodeCursor(0, 0)}

\* Largest offset of a cursor that was not issued for the call it is given to.
MaxForeignOffset == 3

\* Well-formed cursors of the current version with any offset: what a cursor
\* issued at this version for another query or by the other paginated
\* operation looks like.
ForeignCursors == {encodeCursor(off, indexVersion) : off \in 0..MaxForeignOffset}

PageNext ==
  \E t \in {1} :
     \/ /\ \/ \E in \in PageRegInputs :
                Budget(MaxPageVersion) /\ RegisterTool(t, in[1], in[2])
           \/ \E in \in PageUnregInputs :
                Budget(MaxPageVersion) /\ UnregisterBackend(t, in[1], in[2][1], in[2][2])
           \/ Budget(MaxPageVersion) /\ Refresh(t)
           \/ \E query \in PageQueries, limit \in PageLimits, cursor \in PageCursors :
                SearchPage(t, query, limit, cursor, TRUE)
           \/ \E limit \in PageLimits, cursor \in PageCursors :
                ListNamespacesPage(t, limit, cursor, TRUE)
           \/ \E cursor \in BadCursors \cup HandmadeCursors \cup ForeignCursors :
                \/ SearchPage(t, << >>, MaxLimit, cursor, TRUE)
                \/ ListNamespacesPage(t, MaxLimit, cursor, TRUE)
           \/ ListNamespaces(t)
           \/ \E query \in BlankQueries, limit \in 1..MaxLimit : Search(t, query, limit)
        /\ Invoked(t)
     \/ PageStep(t) /\ UNCHANGED << pre, bound, restVars >>
     \/ Return(t) /\ Returned(t)

PageSpec == Init /\ [][PageNext]_vars

\* ----------------------------------------------- the concurrent specification
\* Every goroutine calls any operation at any time.
ConcRegInputs == {ToolA, ToolADesc, ToolAMeta} \X {BackendLocal}
ConcUnregInputs == {ToolID(ToolA)} \X {TargetLocal}

ConcNext ==
  /\ \E t \in Threads :
        \/ \E in \in ConcRegInputs :
             Budget(MaxConcVersion) /\ RegisterTool(t, in[1], in[2])
        \/ \E in \in ConcUnregInputs :
             Budget(MaxConcVersion) /\ UnregisterBackend(t, in[1], in[2][1], in[2][2])
        \/ Budget(MaxConcVersion) /\ Refresh(t)
        \/ GetTool(t, ToolID(ToolA))
        \/ Search(t, << >>, 1)
        \/ ListNamespacesPage(t, 1, EmptyCursor, FALSE)
        \/ nextListenerID < MaxListenerID /\ OnChange(t, << "f" >>)
        \/ Unsubscribe(t, 1)
        \/ Step(t)
        \/ Return(t)
  /\ UNCHANGED << pre, bound, restVars >>

ConcSpec == Init /\ [][ConcNext]_vars

\* -------------------------------------------------- the backend specification
\* One goroutine binds backends to the tool "n:a", replaces and removes them,
\* and reads the backend list.  The local backend "l" comes as two values (in
\* the second the unused MCP pointer is set), and two provider backends have
\* a ':' in different identity fields.
BackendLocalAlt ==
  MkBackend(BackendKindLocal, << [ServerName |-> << "m" >>] >>, << >>,
            << [Name |-> << "l" >>] >>)
ProviderAB_C == makeProviderBackend(<< "a", ":", "b" >>, << "c" >>)
ProviderA_BC == makeProviderBackend(<< "a" >>, << "b", ":", "c" >>)
\* An MCP backend with the separator of the identity key in its server name.
BackendPipe == makeMCPBackend(<< "m", "|", "1", ":", "m" >>)

BackendInputs ==
  {BackendLocal, BackendLocalAlt, BackendMCP, BackendProvider, ProviderAB_C,
   ProviderA_BC, BackendPipe, ZeroBackend}

\* (kind, backendID) arguments of UnregisterBackend: well-formed ones, provider
\* IDs with no ':' or an empty half, and a kind that does not exist.
TargetNoProvider == << BackendKindProvider, << ":", "t" >> >>
TargetNoTool == << BackendKindProvider, << "p", ":" >> >>
TargetNoKind == << << "x" >>, << "l" >> >>

BackendTargets ==
  {TargetLocal, TargetMCP, TargetProvider, TargetMalformed, TargetNoProvider,
   TargetNoTool, TargetNoKind}

BackendStep(t) ==
  \/ Lock(t)
  \/ RLock(t)
  \/ RegisterApply(t)
  \/ UnregisterApply(t)
  \/ Commit(t)
  \/ Notify(t)
  \/ ReadApply(t)

BackendNext ==
  \E t \in {1} :
     \/ /\ \/ \E backend \in BackendInputs :
                Budget(MaxBackendVersion) /\ RegisterTool(t, ToolA, backend)
           \/ \E id \in {ToolID(ToolA), ToolID(ToolB)}, target \in BackendTargets :
                Budget(MaxBackendVersion)
                  /\ UnregisterBackend(t, id, target[1], target[2])
           \/ GetAllBackends(t, ToolID(ToolA))
        /\ Invoked(t)
     \/ BackendStep(t) /\ UNCHANGED << pre, bound, restVars >>
     \/ Return(t) /\ Returned(t)

BackendSpec == Init /\ [][BackendNext]_vars

\* ------------------------------------------------- the listener specification
\* One goroutine subscribes up to two listeners (or nil), calls the
\* unsubscribe functions it was given any number of times, and makes mutating
\* calls that succeed or fail on the tool "n:a".
ListenerRegInputs ==
  ({ToolA} \X {BackendLocal, BackendLocalAlt, BackendMCP})
    \cup ({ToolADesc, ToolNoName} \X {BackendLocal})
    \cup {<< ToolA, ZeroBackend >>}
ListenerTargets == {TargetLocal, TargetMCP, TargetMalformed}

ListenerStep(t) ==
  \/ Lock(t)
  \/ RegisterApply(t)
  \/ UnregisterApply(t)
  \/ Commit(t)
  \/ Notify(t)
  \/ OnChangeApply(t)
  \/ UnsubscribeApply(t)
  \/ RefreshApply(t)

ListenerNext ==
  \E t \in {1} :
     \/ /\ \/ \E in \in ListenerRegInputs :
                Budget(MaxListenerVersion) /\ RegisterTool(t, in[1], in[2])
           \/ \E target \in ListenerTargets :
                Budget(MaxListenerVersion)
                  /\ UnregisterBackend(t, ToolID(ToolA), target[1], target[2])
           \/ Budget(MaxListenerVersion) /\ Refresh(t)
           \/ \E fn \in { << >>, << "f" >>, << "g" >> } :
                (fn = << >> \/ nextListenerID < MaxSubscribers) /\ OnChange(t, fn)
           \/ \E token \in 0..MaxSubscribers : Unsubscribe(t, token)
        /\ Invoked(t)
     \/ ListenerStep(t) /\ UNCHANGED << pre, bound, restVars >>
     \/ Return(t) /\ Returned(t)

ListenerSpec == Init /\ [][ListenerNext]_vars

\* ------------------------------------------------- the searcher specification
\* lexicalSearcher.Search called on its own, as the Searcher contract allows:
\* with any query, any limit (negative ones too) and the documents of up to
\* three tools in any order.
SearchDocOf(tool) ==
  [ID |-> ToolID(tool),
   DocText |-> buildDocText(tool, NormalizeTags(tool.Tags)),
   Summary |-> buildSummary(tool, NormalizeTags(tool.Tags))]

\* "n:an": its name contains "a" and "n" and equals neither.
ToolAN == MkTool(<< "a", "n" >>, << "n" >>, << "x" >>, SchemaRaw, << >>)

DocPool ==
  {SearchDocOf(ToolA), SearchDocOf(ToolB), SearchDocOf(ToolBare), SearchDocOf(ToolAN)}

\* The sequences of distinct documents of the pool.
DocLists ==
  {docs \in UNION {[1..n -> DocPool] : n \in 0..Cardinality(DocPool)} :
     \A i, j \in 1..Len(docs) : i # j => docs[i] # docs[j]}

SearcherQueries ==
  { << >>, << " " >>, << "n" >>, << "a" >>, << "A", " " >>, << "b" >>, << "z" >>,
    << "a", "n" >>, << "G" >> }
SearcherLimits == (0 - MaxLimit)..MaxLimit

\* One call of lexicalSearcher.Search, from its arguments to its result.
LexicalSearch(t, query, limit, docs) ==
  /\ pc[t] = "idle"
  /\ pc' = [pc EXCEPT ![t] = "ret"]
  /\ frame' = [frame EXCEPT ![t] = [op |-> "lexicalSearcher.Search", query |-> query,
                                    limit |-> limit, docs |-> docs]]
  /\ ret' = [ret EXCEPT ![t] = lexicalSearch(query, limit, docs)]
  /\ UNCHANGED << dataVars, listenerVars, cacheVars, indexVersion, mu, histVars >>

SearcherNext ==
  \E t \in {1} :
     \/ /\ \E query \in SearcherQueries, limit \in SearcherLimits, docs \in DocLists :
              LexicalSearch(t, query, limit, docs)
        /\ UNCHANGED << pre, bound, restVars >>
     \/ Return(t) /\ UNCHANGED << pre, bound, restVars >>

SearcherSpec == Init /\ [][SearcherNext]_vars

\* ------------------------------------------ the custom-searcher specification
\* The registry is built with the shuffling searcher in its options; one
\* goroutine registers up to three tools and searches and pages through them.
MaxShuffleVersion == 3

ShuffleInit == NewInMemoryIndex(shufflingSearcher)

ShuffleStep(t) ==
  \/ Lock(t)
  \/ RLock(t)
  \/ RegisterApply(t)
  \/ Commit(t)
  \/ Notify(t)
  \/ SnapshotFast(t)
  \/ SnapshotSlow(t)

ShuffleNext ==
  \E t \in {1} :
     \/ /\ \/ \E in \in PageRegInputs :
                Budget(MaxShuffleVersion) /\ RegisterTool(t, in[1], in[2])
           \/ \E query \in { << >>, << "a" >> }, limit \in 1..MaxLimit,
                 cursor \in PageCursors :
                SearchPage(t, query, limit, cursor, TRUE)
           \/ \E query \in { << >>, << "a" >> } : Search(t, query, MaxLimit)
        /\ Invoked(t)
     \/ ShuffleStep(t) /\ UNCHANGED << pre, bound, restVars >>
     \/ Return(t) /\ Returned(t)

ShuffleSpec == ShuffleInit /\ [][ShuffleNext]_vars

\* ------------------------------------------- the schema-comparison specification
\* jsonEqual called on its own with two schema values, as toolMCPFieldsEqual
\* calls it for InputSchema and OutputSchema: nil, JSON text as
\* json.RawMessage or []byte (the number 1 in two spellings, 2, null, an
\* object, and text that is not JSON), and Go values (int, float64, string,
\* bool, map[string]any and []any holding an int, a float64 or nil).
SchemaValues ==
  {JNil,
   JRaw(<< "1" >>), JRaw(<< "1", " " >>), JRaw(<< "2" >>), JRaw(<< "n" >>),
   JRaw(<< "{", "k", ":", "1", "}" >>), JRaw(<< "x" >>), JBytes(<< "1" >>),
   JInt(1), JFloat(1), JFloat(2), JString(<< "1" >>), JBool(TRUE),
   JMap([k |-> JInt(1)]), JMap([k |-> JFloat(1)]), JMap([k |-> JNil]),
   JSlice(<< JFloat(1) >>), JSlice(<< JInt(1) >>)}

\* One call of jsonEqual, from its arguments to the ways it can end.
JsonEqual(t, a, b) ==
  /\ pc[t] = "idle"
  /\ pc' = [pc EXCEPT ![t] = "ret"]
  /\ frame' = [frame EXCEPT ![t] = [op |-> "jsonEqual", a |-> a, b |-> b]]
  /\ ret' = [ret EXCEPT ![t] = [err |-> ErrNone, ends |-> jsonEqual(a, b)]]
  /\ UNCHANGED << dataVars, listenerVars, cacheVars, indexVersion, mu, histVars >>

JsonNext ==
  \E t \in {1} :
     \/ /\ \E a, b \in SchemaValues : JsonEqual(t, a, b)
        /\ UNCHANGED << pre, bound, restVars >>
     \/ Return(t) /\ UNCHANGED << pre, bound, restVars >>

JsonSpec == Init /\ [][JsonNext]_vars

\* ---------------------------------------------------------------- properties
\* A paging call that has returned to the point where its caller reads the
\* result, and whose cursor is the one the caller's last page gave it.
Continues(t) ==
  /\ pc[t] = "ret"
  /\ frame[t].op \in PageOps
  /\ frame[t].limit > 0
  /\ frame[t].cont

\* C1: a non-empty cursor that SearchPage or ListNamespacesPage returned, when
\* it is presented again (with a positive limit) after a RegisterTool or
\* UnregisterBackend call succeeded in between, is rejected with
\* ErrInvalidCursor, and the call returns no page and no next cursor.
C1_StaleCursorRejected ==
  \A t \in Threads :
     (Continues(t) /\ walk.epoch < pre[t].nmut)
       => /\ ret[t].err = ErrInvalidCursor
          /\ ret[t].out = << >>
          /\ ret[t].next = EmptyCursor

\* C1's case: a cursor of an earlier page came back after a mutation.
C1_Witness ==
  \E t \in Threads :
     /\ Continues(t)
     /\ walk.epoch < pre[t].nmut
     /\ ret[t].err = ErrInvalidCursor

\* The caller has walked the pages to the end, from an empty cursor to an
\* empty next cursor, and no mutation has succeeded since the first page.
WalkedToEnd ==
  /\ \A t \in Threads : pc[t] = "idle"
  /\ walk.kind # "none"
  /\ walk.next = EmptyCursor
  /\ walk.start = nmut

\* C2: with no mutation between the first and the last page, the pages of
\* SearchPage for a query, taken from an empty cursor to an empty next cursor
\* with any positive limit, concatenate to exactly what Search returns for
\* that query with limit = number of registered tools, and the pages of
\* ListNamespacesPage concatenate to exactly what ListNamespaces returns.
C2_PagesConcatenate ==
  WalkedToEnd =>
    walk.acc =
      IF walk.kind = "SearchPage"
      THEN searchResult([op |-> "Search", query |-> walk.query,
                         limit |-> Cardinality(DOMAIN tools)],
                        rebuiltDocs(tools), indexVersion, "fast").out
      ELSE listNamespaces(namespaces).out

\* C2's case: two pages of one item each made up the result of a query that
\* scores its two matches differently.
C2_Witness ==
  /\ WalkedToEnd
  /\ walk.kind = "SearchPage"
  /\ walk.query # << >>
  /\ walk.pages = 2
  /\ Len(walk.acc) = 2

\* The JSON value an in-memory schema denotes, whatever its representation.
Denotes(x) ==
  IF IsBytes(x)
  THEN LET u == jsonUnmarshal(x.v)
       IN  IF u.ok THEN u.val ELSE [t |-> "malformed", v |-> x.v]
  ELSE IF x.t = "int" THEN JFloat(x.v)
  ELSE x

\* Two tools differ in a protocol field (everything but namespace, version
\* and tags).
ProtoDiffers(a, b) ==
  \/ \E fld \in DOMAIN a \ {"Namespace", "Version", "Tags", "InputSchema", "OutputSchema"} :
        a[fld] # b[fld]
  \/ Denotes(a.InputSchema) # Denotes(b.InputSchema)
  \/ Denotes(a.OutputSchema) # Denotes(b.OutputSchema)

\* A RegisterTool call with valid arguments has returned to where its caller
\* reads the error, and the tool ID was registered when it was invoked.
ReRegistered(t) ==
  /\ pc[t] = "ret"
  /\ frame[t].op = "RegisterTool"
  /\ ToolValid(frame[t].tool)
  /\ validateBackend(frame[t].backend) = ErrNone
  /\ frame[t].toolID \in DOMAIN pre[t].tools

\* C3: RegisterTool (with arguments that pass validation) for a tool ID that
\* is registered, with an incoming tool whose protocol fields differ from
\* the stored ones, returns ErrInvalidTool and changes nothing: the stored
\* tool, tags, backends, namespaces, listeners, version and cache dirty flag
\* are those of before the call, the lock is free again, and no listener was
\* invoked.
C3_MismatchChangesNothing ==
  \A t \in Threads :
     (/\ ReRegistered(t)
      /\ ProtoDiffers(pre[t].tools[frame[t].toolID].tool, frame[t].tool))
       => /\ ret[t].err = ErrInvalidTool
          /\ Registry = pre[t]
          /\ ret[t].notified = << >>
          /\ mu = [w |-> 0, r |-> {}]

\* The documents the next Search call gets from snapshotSearchDocs when no
\* call is in progress.
SnapshotNow ==
  IF cacheFresh(searchDocs, searchDocsDirty, searchDocsVersion, indexVersion)
  THEN searchDocs[1]
  ELSE rebuiltDocs(tools)

\* What Search(query, limit) returns when called now.
SearchNow(query, limit) ==
  searchResult([op |-> "Search", query |-> query, limit |-> limit],
               SnapshotNow, indexVersion, "fast").out

\* An UnregisterBackend call has returned success to its caller.
Unregistered(t) ==
  /\ pc[t] = "ret"
  /\ frame[t].op = "UnregisterBackend"
  /\ ret[t].err = ErrNone

\* C4: after UnregisterBackend removed the last backend of a tool, GetTool
\* and GetAllBackends for its ID return ErrNotFound, no Search result has
\* its ID, and its namespace is still listed exactly when another registered
\* tool has it; after it removed a backend that was not the last, the tool
\* is still there with exactly the other backends, in their order.
C4_LastBackendRemovesTool ==
  \A t \in Threads :
     Unregistered(t) =>
       LET id == frame[t].toolID
           was == pre[t].tools[id]
           left == SelectSeq(was.backends,
                             LAMBDA b : ~Names(frame[t].kind, frame[t].backendID, b))
       IN  /\ Len(left) = Len(was.backends) - 1
           /\ IF Len(was.backends) = 1
              THEN /\ getTool(tools, id).err = ErrNotFound
                   /\ getAllBackends(tools, id).err = ErrNotFound
                   /\ \A q \in Queries :
                         \A sm \in Range(SearchNow(q, Cardinality(DOMAIN tools) + 1)) :
                            sm.ID # id
                   /\ (was.tool.Namespace \in Range(listNamespaces(namespaces).out))
                        <=> (\E id2 \in DOMAIN tools :
                               tools[id2].tool.Namespace = was.tool.Namespace)
              ELSE /\ getTool(tools, id).err = ErrNone
                   /\ getTool(tools, id).tool = << was.tool >>
                   /\ getAllBackends(tools, id).backends = left

\* C4's case: the last backend of a tool was removed while another tool of
\* its namespace stayed, and the cache had held the removed tool.
C4_Witness ==
  \E t \in Threads :
     /\ Unregistered(t)
     /\ Len(pre[t].tools[frame[t].toolID].backends) = 1
     /\ tools # << >>
     /\ searchDocs # << >>

\* The default priority of a backend kind: local, then provider, then MCP.
Priority(kind) ==
  CASE kind = BackendKindLocal -> 1
    [] kind = BackendKindProvider -> 2
    [] kind = BackendKindMCP -> 3
    [] OTHER -> 4

\* The backend the default priority prefers among bs: the oldest of those of
\* the best kind.
Preferred(bs) ==
  bs[CHOOSE i \in 1..Len(bs) :
       /\ \A j \in 1..Len(bs) : Priority(bs[i].Kind) <= Priority(bs[j].Kind)
       /\ \A j \in 1..(i - 1) : Priority(bs[i].Kind) < Priority(bs[j].Kind)]

\* A GetTool call has returned to where its caller reads the result.
Got(t) ==
  /\ pc[t] = "ret"
  /\ frame[t].op = "GetTool"

\* C5: GetTool returns ErrNotFound exactly when no backend is bound to the
\* ID, and otherwise a backend that is bound at the time of the call (one
\* whose registration has returned and that no call has unregistered), and
\* with the default selector the oldest local one if there is one, else the
\* oldest provider one, else the oldest MCP one, whatever the order in which
\* the backends were registered.
C5_GetToolSelectsCurrent ==
  \A t \in Threads :
     Got(t) =>
       IF frame[t].id \in DOMAIN bound
       THEN /\ ret[t].err = ErrNone
            /\ ret[t].backend \in Range(bound[frame[t].id])
            /\ ret[t].backend = Preferred(bound[frame[t].id])
       ELSE ret[t].err = ErrNotFound

\* C5's case: GetTool chose the local backend, registered after a backend of
\* another kind.
C5_Witness ==
  \E t \in Threads :
     /\ Got(t)
     /\ frame[t].id \in DOMAIN bound
     /\ Len(bound[frame[t].id]) = 2
     /\ ret[t].backend = bound[frame[t].id][2]
     /\ ret[t].backend.Kind = BackendKindLocal
     /\ bound[frame[t].id][1].Kind # BackendKindLocal

\* The goroutine is in a RegisterTool or UnregisterBackend call.
Mutating(t) == frame[t].op \in {"RegisterTool", "UnregisterBackend"}

\* ... and the call has made its change and read the resulting version.
Mutated(t) == Mutating(t) /\ frame[t].version # 0

\* What holds of the versions calls have obtained: a call fails exactly when
\* it obtained none, no call holds a version the index has not reached, and
\* no two calls in progress hold the same one.
VersionsObtained ==
  /\ \A t \in Threads :
        (pc[t] = "ret" /\ Mutating(t))
          => /\ (ret[t].err = ErrNone) <=> Mutated(t)
             /\ Mutated(t) => ret[t].version = frame[t].version
  /\ \A t \in Threads : Mutated(t) => frame[t].version <= indexVersion
  /\ \A t, u \in Threads :
        (t # u /\ Mutated(t) /\ Mutated(u)) => frame[t].version # frame[u].version

\* What holds of every step: the version does not decrease; it changes by
\* one, and only in the step in which one mutating call (Refresh included)
\* obtains it; and the step in which a RegisterTool or UnregisterBackend call
\* obtains its version is one that increments.
VersionStep ==
  /\ indexVersion' >= indexVersion
  /\ indexVersion' # indexVersion =>
        /\ indexVersion' = indexVersion + 1
        /\ \E t \in Threads :
              /\ frame[t].op \in MutOps
              /\ frame[t].version = 0
              /\ frame'[t].version = indexVersion'
              /\ \A u \in Threads \ {t} : frame'[u] = frame[u]
  /\ \A t \in Threads :
        (Mutating(t) /\ ~Mutated(t) /\ frame'[t].op = frame[t].op
           /\ frame'[t].version # 0)
          => /\ indexVersion' = indexVersion + 1
             /\ frame'[t].version = indexVersion'

\* C6: the index version never decreases; every successful RegisterTool or
\* UnregisterBackend call increases it by exactly one and returns the value
\* it produced; a failed call does not change it; and when calls overlap, no
\* two successful ones obtain the same version.
C6_VersionCounts == []VersionsObtained /\ [][VersionStep]_vars

\* C6's case: two overlapping calls have both succeeded, with versions 1 and
\* 2.
C6_Witness ==
  \E t, u \in Threads :
     /\ t # u
     /\ Mutated(t) /\ pc[t] = "ret"
     /\ Mutated(u) /\ pc[u] = "ret"
     /\ frame[t].version = 1
     /\ frame[u].version = 2

\* No other goroutine is inside a write-locked section, where a mutation may
\* be half applied (records changed, version not yet).
NoWriterBeside(t) ==
  \A u \in Threads \ {t} : pc[u] \notin {"cs", "commit"}

\* The step in which snapshotSearchDocs or ListNamespacesPage takes its
\* copy: what the call returns with was current, all of it, in the state the
\* step starts from, and no mutation was half applied in that state.
SnapshotStep ==
  \A t \in Threads :
     (pc[t] \in {"rcs", "cs"} /\ pc'[t] = "ret")
       => /\ frame[t].op \in SearchOps
             => /\ ret'[t].docs = rebuiltDocs(tools)
                /\ ret'[t].version = indexVersion
                /\ NoWriterBeside(t)
          /\ frame[t].op = "ListNamespacesPage"
             => /\ ret'[t].nss = {tools[id].tool.Namespace : id \in DOMAIN tools}
                /\ ret'[t].nss = namespaces
                /\ ret'[t].version = indexVersion
                /\ NoWriterBeside(t)

\* C7: the docs and the version a snapshot returns were both current at one
\* instant between the call's invocation and its return, and that instant
\* lies between complete mutations, never inside one; the namespaces and the
\* version ListNamespacesPage pairs are consistent in the same way.
C7_SnapshotConsistent == [][SnapshotStep]_vars

\* C7's case: a Search call took its snapshot of a non-empty registry while
\* another goroutine was inside a mutating call, waiting for the lock or
\* already past it.
C7_Witness ==
  \E t, u \in Threads :
     /\ pc[t] = "ret"
     /\ frame[t].op \in SearchOps
     /\ ret[t].docs # << >>
     /\ ret[t].path = "rebuilt"
     /\ Mutating(u)
     /\ pc[u] \in {"lock", "notify"}

\* C8 (what it says of the lock): a goroutine holds the write lock only
\* between Lock and Unlock inside an operation, and the read lock only
\* between RLock and RUnlock; on whatever path an operation is left, by a
\* return, an error return or a panic, it has released the lock it took, so
\* that no later operation waits for a lock nobody will release.
C8_LockReleasedOnEveryPath ==
  \A t \in Threads :
     /\ mu.w = t => pc[t] \in {"lockwait", "cs", "commit"}
     /\ t \in mu.r => pc[t] = "rcs"

\* A Search or SearchPage call has returned with a snapshot.
Snapshotted(t) ==
  /\ pc[t] = "ret"
  /\ frame[t].op \in SearchOps
  /\ "path" \in DOMAIN ret[t]

\* C9: at each index version the cache is rebuilt at most once; once a
\* snapshot of the current version has been handed out, exactly one rebuild
\* has been made at that version (by one snapshot request or by Refresh), so
\* that of the Search calls that overlap on a dirty cache exactly one
\* rebuilds and the others reuse the result, and later ones rebuild nothing.
C9_OneRebuildPerVersion ==
  /\ searchDocsBuilds <= 1
  /\ \A t \in Threads :
        (Snapshotted(t) /\ ret[t].version = indexVersion) => searchDocsBuilds = 1
  /\ \A t, u \in Threads :
        (/\ t # u
         /\ Snapshotted(t) /\ Snapshotted(u)
         /\ ret[t].version = ret[u].version)
          => ~(ret[t].path = "rebuilt" /\ ret[u].path = "rebuilt")

\* C9's case: after a mutation two Search calls both found the cache dirty
\* under the read lock; one rebuilt it under the write lock and the other,
\* getting the write lock later, reused it.
C9_Witness ==
  \E t, u \in Threads :
     /\ Snapshotted(t) /\ Snapshotted(u)
     /\ ret[t].version = ret[u].version
     /\ ret[t].version > 0
     /\ ret[t].path = "rebuilt"
     /\ ret[u].path = "reused"

\* C10: RegisterTool (with arguments that pass validation) for a tool ID
\* that is registered, with an incoming tool whose protocol fields are those
\* stored, succeeds whatever the tags, and afterwards the stored tool is the
\* incoming one, the normalized tags are those of the incoming tags, the
\* document text contains each of them and none of the old ones that are not
\* among them, and the Summary the next Search returns for the ID has
\* exactly the new tags.
C10_LatestTagsWin ==
  \A t \in Threads :
     (/\ ReRegistered(t)
      /\ ~ProtoDiffers(pre[t].tools[frame[t].toolID].tool, frame[t].tool))
       => LET id == frame[t].toolID
              new == NormalizeTags(frame[t].tool.Tags)
              old == pre[t].tools[id].normalizedTags
              found == SearchNow(<< >>, Cardinality(DOMAIN tools))
          IN  /\ ret[t].err = ErrNone
              /\ tools[id].tool = frame[t].tool
              /\ tools[id].normalizedTags = new
              /\ \A tag \in Range(new) : Contains(tools[id].docText, tag)
              /\ \A tag \in Range(old) \ Range(new) :
                    ~Contains(tools[id].docText, tag)
              /\ \E i \in 1..Len(found) : found[i].ID = id
              /\ \A i \in 1..Len(found) : found[i].ID = id => found[i].Tags = new

\* A RegisterTool call has returned success to its caller.
Registered(t) ==
  /\ pc[t] = "ret"
  /\ frame[t].op = "RegisterTool"
  /\ ret[t].err = ErrNone

\* A GetAllBackends call has returned to where its caller reads the result.
GotAll(t) ==
  /\ pc[t] = "ret"
  /\ frame[t].op = "GetAllBackends"

\* C11: a successful RegisterTool for an ID that is registered, with a
\* backend whose identity is bound to the tool, puts the backend in the place
\* of the bound one and leaves the number and the order of the backends as
\* they were; with a backend of another identity it appends the backend; for
\* a new ID the backend is the only one; and GetAllBackends returns the bound
\* backends in the order in which their identities were first registered.
C11_ReplaceInPlaceOrAppend ==
  \A t \in Threads :
     /\ Registered(t) =>
          LET id == frame[t].toolID
              b == frame[t].backend
              was == IF id \in DOMAIN pre[t].tools THEN pre[t].tools[id].backends
                     ELSE << >>
              now == tools[id].backends
          IN  IF \E i \in 1..Len(was) : SameBackend(was[i], b)
              THEN /\ Len(now) = Len(was)
                   /\ \A i \in 1..Len(was) :
                         now[i] = IF SameBackend(was[i], b) THEN b ELSE was[i]
              ELSE now = Append(was, b)
     /\ GotAll(t) =>
          IF frame[t].id \in DOMAIN bound
          THEN ret[t].err = ErrNone /\ ret[t].backends = bound[frame[t].id]
          ELSE ret[t].err = ErrNotFound

\* C11's case: of two bound backends the first was replaced by another value
\* of the same identity.
C11_Witness ==
  \E t \in Threads :
     /\ Registered(t)
     /\ frame[t].toolID \in DOMAIN pre[t].tools
     /\ Len(pre[t].tools[frame[t].toolID].backends) = 2
     /\ SameBackend(pre[t].tools[frame[t].toolID].backends[1], frame[t].backend)
     /\ pre[t].tools[frame[t].toolID].backends[1] # frame[t].backend
     /\ tools[frame[t].toolID].backends[1] = frame[t].backend

\* C12: the identity key RegisterTool computed for a valid backend is a key
\* of the record exactly when a backend of the same kind and identity fields
\* is bound to the tool, and then it is the key of that backend's position,
\* also when the fields contain ':' or '|'; so a backend that is registered
\* displaces no backend of another identity.
C12_IdentityKeysDistinct ==
  \A t \in Threads :
     /\ (/\ frame[t].op = "RegisterTool"
         /\ pc[t] \in {"lock", "cs"}
         /\ frame[t].toolID \in DOMAIN tools)
          => LET record == tools[frame[t].toolID]
                 key == frame[t].backendKey
             IN  /\ key \in DOMAIN record.backendKeys
                      <=> \E i \in 1..Len(record.backends) :
                             SameBackend(record.backends[i], frame[t].backend)
                 /\ key \in DOMAIN record.backendKeys
                      => SameBackend(record.backends[record.backendKeys[key] + 1],
                                     frame[t].backend)
     /\ (Registered(t) /\ frame[t].toolID \in DOMAIN pre[t].tools)
          => /\ frame[t].backend \in Range(tools[frame[t].toolID].backends)
             /\ \A b \in Range(pre[t].tools[frame[t].toolID].backends) :
                   ~SameBackend(b, frame[t].backend)
                     => b \in Range(tools[frame[t].toolID].backends)

\* C12's case: provider ("a", "b:c") was registered on a tool that provider
\* ("a:b", "c") is bound to, and both are bound now.
C12_Witness ==
  \E t \in Threads :
     /\ Registered(t)
     /\ frame[t].backend = ProviderA_BC
     /\ frame[t].toolID \in DOMAIN pre[t].tools
     /\ ProviderAB_C \in Range(pre[t].tools[frame[t].toolID].backends)
     /\ {ProviderAB_C, ProviderA_BC} \subseteq Range(tools[frame[t].toolID].backends)

\* A provider backendID that is not "providerID:toolID" with two non-empty
\* halves around its first ':'.
MalformedProviderID(backendID) ==
  \/ \A i \in 1..Len(backendID) : backendID[i] # ":"
  \/ backendID[1] = ":"
  \/ /\ backendID[Len(backendID)] = ":"
     /\ \A i \in 1..(Len(backendID) - 1) : backendID[i] # ":"

\* An UnregisterBackend call has returned to where its caller reads the error.
UnregisterReturned(t) ==
  /\ pc[t] = "ret"
  /\ frame[t].op = "UnregisterBackend"

\* C13: UnregisterBackend with kind provider and a malformed backendID
\* returns ErrInvalidBackend, whether the tool ID exists or not; otherwise,
\* with a tool ID that is absent or a backend that is not bound to the tool,
\* it returns ErrNotFound; and a call that fails leaves the records, the
\* namespaces, the version, the dirty flag and the listeners as they were,
\* invokes no listener and holds no lock.
C13_UnregisterFailures ==
  \A t \in Threads :
     UnregisterReturned(t) =>
       LET f == frame[t]
           isBound == /\ f.toolID \in DOMAIN pre[t].tools
                      /\ \E b \in Range(pre[t].tools[f.toolID].backends) :
                            Names(f.kind, f.backendID, b)
       IN  /\ ret[t].err =
                IF f.kind = BackendKindProvider /\ MalformedProviderID(f.backendID)
                THEN ErrInvalidBackend
                ELSE IF ~isBound THEN ErrNotFound ELSE ErrNone
           /\ ret[t].err # ErrNone
                => /\ Registry = pre[t]
                   /\ ret[t].notified = << >>
                   /\ mu = [w |-> 0, r |-> {}]

\* C13's case: a malformed provider backendID was rejected for a tool ID
\* that is not registered, while another tool is.
C13_Witness ==
  \E t \in Threads :
     /\ UnregisterReturned(t)
     /\ frame[t].kind = BackendKindProvider
     /\ MalformedProviderID(frame[t].backendID)
     /\ frame[t].toolID \notin DOMAIN tools
     /\ tools # << >>
     /\ ret[t].err = ErrInvalidBackend

\* A ListNamespaces call has returned to where its caller reads the result.
Listed(t) ==
  /\ pc[t] = "ret"
  /\ frame[t].op = "ListNamespaces"

\* The namespaces of the registered tools, and the records of a namespace.
NamespacesInUse == {tools[id].tool.Namespace : id \in DOMAIN tools}
RecordsIn(ns) == {id \in DOMAIN tools : tools[id].tool.Namespace = ns}

\* C14: in every state the listed namespaces are those of the registered
\* tools, the empty namespace included, each counted with the number of its
\* records and none with a count below one; and ListNamespaces returns them
\* without error, in ascending byte order and therefore without duplicates.
C14_NamespacesMatchRecords ==
  /\ namespaces = NamespacesInUse
  /\ DOMAIN namespaceCounts = NamespacesInUse
  /\ \A ns \in DOMAIN namespaceCounts :
        /\ namespaceCounts[ns] = Cardinality(RecordsIn(ns))
        /\ namespaceCounts[ns] > 0
  /\ \A t \in Threads :
        Listed(t) =>
          /\ ret[t].err = ErrNone
          /\ Range(ret[t].out) = NamespacesInUse
          /\ \A i, j \in 1..Len(ret[t].out) :
                i < j => StrLess(ret[t].out[i], ret[t].out[j])

\* C14's case: three mutations left two tools, one of them in the empty
\* namespace, and ListNamespaces returned the empty namespace before "n".
C14_Witness ==
  \E t \in Threads :
     /\ Listed(t)
     /\ ret[t].out = << << >>, << "n" >> >>
     /\ nmut = MaxPageVersion
     /\ Cardinality(DOMAIN tools) = 2
     /\ walk.kind # "none"

\* A Search call with a positive limit and a query of nothing but spaces has
\* returned to where its caller reads the result.
SearchedAll(t) ==
  /\ pc[t] = "ret"
  /\ frame[t].op = "Search"
  /\ frame[t].limit > 0
  /\ \A i \in 1..Len(frame[t].query) : frame[t].query[i] = " "

\* C15: Search with an empty or all-blank query and a limit N > 0 returns,
\* without error, min(N, number of registered tools) summaries: those of the
\* tools with the smallest IDs, each tool once, in ascending order of ID.
C15_EmptyQueryListsByID ==
  \A t \in Threads :
     SearchedAll(t) =>
       LET out == ret[t].out
           ids == {out[i].ID : i \in 1..Len(out)}
       IN  /\ ret[t].err = ErrNone
           /\ ~ret[t].panic
           /\ Len(out) = Min(frame[t].limit, Cardinality(DOMAIN tools))
           /\ \A i \in 1..Len(out) :
                 /\ out[i].ID \in DOMAIN tools
                 /\ out[i] = buildSummary(tools[out[i].ID].tool,
                                          NormalizeTags(tools[out[i].ID].tool.Tags))
           /\ \A i, j \in 1..Len(out) : i < j => StrLess(out[i].ID, out[j].ID)
           /\ \A id \in DOMAIN tools \ ids : \A i \in 1..Len(out) : StrLess(out[i].ID, id)

\* C15's case: with three tools registered, Search(" ", 2) returned the two
\* with the smallest IDs and rebuilt the cache for it.
C15_Witness ==
  \E t \in Threads :
     /\ SearchedAll(t)
     /\ frame[t].query = << " " >>
     /\ frame[t].limit = 2
     /\ Cardinality(DOMAIN tools) = 3
     /\ Len(ret[t].out) = 2
     /\ ret[t].path = "rebuilt"

\* A call of the lexical searcher has come to its end.
LexicalSearched(t) ==
  /\ pc[t] = "ret"
  /\ frame[t].op = "lexicalSearcher.Search"

\* The score of a returned summary: that of the document it came from.
ScoreOf(summary, docs, query) ==
  docScore(CHOOSE doc \in Range(docs) : doc.Summary = summary,
           ToLower(TrimSpace(query)))

\* C16: for a query that is not blank, whatever the documents and their
\* order and whatever the limit (>= 0), the lexical searcher returns the
\* matches by descending score, and of two matches with the same score the
\* one with the smaller tool ID first.
C16_ScoreThenID ==
  \A t \in Threads :
     (/\ LexicalSearched(t)
      /\ TrimSpace(frame[t].query) # << >>
      /\ frame[t].limit >= 0)
       => LET out == ret[t].out
              score(i) == ScoreOf(out[i], frame[t].docs, frame[t].query)
          IN  \A i, j \in 1..Len(out) :
                 i < j => \/ score(i) > score(j)
                          \/ score(i) = score(j) /\ StrLess(out[i].ID, out[j].ID)

\* C17: the lexical searcher called with a limit <= 0, whatever the query
\* and the documents, comes to its end by returning an empty result and no
\* error, never by a panic.
C17_NoLimitNoResult ==
  \A t \in Threads :
     (LexicalSearched(t) /\ frame[t].limit <= 0)
       => /\ ~ret[t].panic
          /\ ret[t].err = ErrNone
          /\ ret[t].out = << >>

\* The errors a caller can classify with errors.Is.
Sentinels == {ErrNotFound, ErrInvalidTool, ErrInvalidBackend, ErrInvalidCursor}

\* A call has come to its end with an error.
Failed(t) ==
  /\ pc[t] = "ret"
  /\ frame[t].op # "none"
  /\ ret[t].err # ErrNone

\* C18: whatever operation fails, with whatever arguments (SearchPage and
\* ListNamespacesPage with a limit <= 0 among them), the error is one of
\* ErrNotFound, ErrInvalidTool, ErrInvalidBackend and ErrInvalidCursor, the
\* records, namespaces, listeners and index version are those of before the
\* call, and no lock is held, so that the next call can proceed.
C18_ErrorsClassified ==
  \A t \in Threads :
     Failed(t) =>
       /\ ret[t].err \in Sentinels
       /\ tools = pre[t].tools
       /\ namespaces = pre[t].namespaces
       /\ namespaceCounts = pre[t].namespaceCounts
       /\ listeners = pre[t].listeners
       /\ indexVersion = pre[t].indexVersion
       /\ mu = [w |-> 0, r |-> {}]

\* A mutating call (Refresh included) has come to its end.
MutationReturned(t) ==
  /\ pc[t] = "ret"
  /\ frame[t].op \in MutOps

\* The tokens of the listeners in list order.
Tokens(ls) == [i \in 1..Len(ls) |-> ls[i].id]

\* C19: a mutating call that succeeded has called each listener that was
\* subscribed when it was made exactly once, in the order of subscription,
\* each with the one event of the call; a call that failed has called none;
\* and while listeners are being called the caller holds no lock.
C19_ListenersNotifiedInOrder ==
  \A t \in Threads :
     /\ MutationReturned(t) =>
          IF ret[t].err = ErrNone
          THEN /\ Tokens(ret[t].notified) = Tokens(pre[t].listeners)
               /\ \A i \in 1..Len(ret[t].notified) :
                     ret[t].notified[i].event = ret[t].event
          ELSE ret[t].notified = << >>
     /\ (frame[t].op \in MutOps /\ (pc[t] = "notify" \/ frame[t].notified # << >>))
          => mu.w # t /\ t \notin mu.r

\* C19's case: a successful UnregisterBackend called the two subscribers in
\* the order of their subscription.
C19_Witness ==
  \E t \in Threads :
     /\ MutationReturned(t)
     /\ ret[t].err = ErrNone
     /\ Tokens(ret[t].notified) = << 1, 2 >>
     /\ frame[t].op = "UnregisterBackend"

\* A RegisterTool or UnregisterBackend call has returned success.
Changed(t) ==
  /\ pc[t] = "ret"
  /\ frame[t].op \in {"RegisterTool", "UnregisterBackend"}
  /\ ret[t].err = ErrNone

\* C20: the event of a successful RegisterTool is 'registered' when the ID
\* was new and 'updated' when it existed, and carries the backend passed in;
\* the event of a successful UnregisterBackend is 'backend_removed' when the
\* tool keeps a backend and 'tool_removed' when the record is gone, and
\* carries the backend that was bound and is no longer; either event carries
\* the tool ID and the index version the call produced, which is positive and
\* one more than the version before the call; and it is the event every
\* listener got.
C20_EventTypeAndPayload ==
  \A t \in Threads :
     Changed(t) =>
       LET f == frame[t]
           ev == ret[t].event
           was == IF f.toolID \in DOMAIN pre[t].tools
                  THEN pre[t].tools[f.toolID].backends ELSE << >>
       IN  /\ ev.ToolID = f.toolID
           /\ ev.Version = indexVersion
           /\ ev.Version = pre[t].indexVersion + 1
           /\ ev.Version > 0
           /\ \A i \in 1..Len(ret[t].notified) : ret[t].notified[i].event = ev
           /\ IF f.op = "RegisterTool"
              THEN /\ ev.ToolID = ToolID(f.tool)
                   /\ ev.Type = IF was = << >> THEN ChangeRegistered ELSE ChangeUpdated
                   /\ ev.Backend = f.backend
              ELSE /\ ev.Type = IF Len(was) > 1 THEN ChangeBackendRemoved
                                ELSE ChangeToolRemoved
                   /\ (ev.Type = ChangeToolRemoved) <=> (f.toolID \notin DOMAIN tools)
                   /\ ev.Backend \in Range(was)
                   /\ Names(f.kind, f.backendID, ev.Backend)
                   /\ f.toolID \in DOMAIN tools
                        => ev.Backend \notin Range(tools[f.toolID].backends)

\* C20's case: a listener got the 'tool_removed' event of the removal of the
\* last backend, carrying the value that had replaced the first registration
\* of that backend.
C20_Witness ==
  \E t \in Threads :
     /\ Changed(t)
     /\ ret[t].event.Type = ChangeToolRemoved
     /\ ret[t].event.Backend = BackendLocalAlt
     /\ ret[t].event.Version = MaxListenerVersion
     /\ ret[t].notified # << >>

\* An UnregisterBackend call has returned success to its caller.
Removed(t) ==
  /\ pc[t] = "ret"
  /\ frame[t].op = "UnregisterBackend"
  /\ ret[t].err = ErrNone

\* C30: in every state each record is stored under the ID of its tool, has at
\* least one backend, has no two backends of one identity (kind and identity
\* fields), and its identity map has exactly the identity keys of its
\* backends, each mapped to the 0-based position of its backend in the list.
C30_RecordsWellFormed ==
  \A id \in DOMAIN tools :
     LET record == tools[id]
         n == Len(record.backends)
     IN  /\ ToolID(record.tool) = id
         /\ n >= 1
         /\ \A i, j \in 1..n :
               i # j => ~SameBackend(record.backends[i], record.backends[j])
         /\ DOMAIN record.backendKeys = {backendIdentity(record.backends[i]) : i \in 1..n}
         /\ \A i \in 1..n :
               record.backendKeys[backendIdentity(record.backends[i])] = i - 1
         /\ Cardinality(DOMAIN record.backendKeys) = n

\* C30's case: the first of three backends was removed, and the two that
\* followed it moved one position down.
C30_Witness ==
  \E t \in Threads :
     /\ Removed(t)
     /\ frame[t].toolID \in DOMAIN pre[t].tools
     /\ Len(pre[t].tools[frame[t].toolID].backends) = 3
     /\ pre[t].tools[frame[t].toolID].backends[1] = frame[t].backend
     /\ frame[t].toolID \in DOMAIN tools
     /\ tools[frame[t].toolID].backends = Tail(pre[t].tools[frame[t].toolID].backends)

\* A cursor that is not base64, or is base64 of something json.Unmarshal
\* does not take for a cursorToken, or carries a negative offset.
MalformedCursor(cursor) ==
  \/ cursor.k \in {"notb64", "notjson"}
  \/ cursor.k = "token" /\ (cursor.off < 0 \/ cursor.sum < 0)

\* A SearchPage or ListNamespacesPage call with a positive limit has returned
\* to where its caller reads the result.
Paged(t) ==
  /\ pc[t] = "ret"
  /\ frame[t].op \in PageOps
  /\ frame[t].limit > 0

\* What the paginated operation pages over, on the registry as it is.
FullResult(f) ==
  IF f.op = "SearchPage"
  THEN lexicalSearch(f.query, Cardinality(DOMAIN tools), rebuiltDocs(tools)).out
  ELSE sortedNamespaces(namespaces)

\* C29: SearchPage and ListNamespacesPage (with a positive limit) answer a
\* malformed cursor with ErrInvalidCursor, no page and no next cursor; they
\* answer the empty cursor, at every index version, with the first limit
\* items of the full result and no error.
C29_CursorDecoding ==
  \A t \in Threads :
     Paged(t) =>
       /\ MalformedCursor(frame[t].cursor)
            => /\ ret[t].err = ErrInvalidCursor
               /\ ret[t].out = << >>
               /\ ret[t].next = EmptyCursor
       /\ frame[t].cursor = EmptyCursor
            => /\ ret[t].err = ErrNone
               /\ ret[t].out =
                    SubSeq(FullResult(frame[t]), 1,
                           Min(frame[t].limit, Len(FullResult(frame[t]))))

\* C29's case: on a registry with two tools that has seen mutations, a cursor
\* with a negative offset and the current version as its checksum was
\* rejected.
C29_Witness ==
  \E t \in Threads :
     /\ Paged(t)
     /\ frame[t].cursor = encodeCursor(-1, indexVersion)
     /\ indexVersion >= 2
     /\ Cardinality(DOMAIN tools) = 2
     /\ ret[t].err = ErrInvalidCursor

\* An OnChange call, or a call of an unsubscribe function, has returned.
Subscribed(t) ==
  /\ pc[t] = "ret"
  /\ frame[t].op = "OnChange"

Unsubscribed(t) ==
  /\ pc[t] = "ret"
  /\ frame[t].op = "Unsubscribe"

\* C22: OnChange(nil) leaves the listener list and the token counter as they
\* were and returns the no-op unsubscribe function; OnChange of a function
\* appends one entry under a token that is larger than every token handed
\* out before; a call of an unsubscribe function, the first or a later one,
\* returns normally and leaves exactly the entries of the other tokens, in
\* their order; and no two entries ever share a token.
C22_UnsubscribeIdempotent ==
  /\ \A i, j \in 1..Len(listeners) : i # j => listeners[i].id # listeners[j].id
  /\ \A t \in Threads :
        /\ Subscribed(t) =>
             IF frame[t].fn = << >>
             THEN /\ listeners = pre[t].listeners
                  /\ nextListenerID = pre[t].nextListenerID
                  /\ ret[t].token = 0
             ELSE /\ listeners = Append(pre[t].listeners,
                                        [id |-> ret[t].token, fn |-> frame[t].fn[1]])
                  /\ ret[t].token > pre[t].nextListenerID
                  /\ nextListenerID = ret[t].token
        /\ Unsubscribed(t) =>
             /\ ret[t].err = ErrNone
             /\ listeners = SelectSeq(pre[t].listeners,
                                      LAMBDA e : e.id # frame[t].token)
             /\ Len(listeners) >= Len(pre[t].listeners) - 1
             /\ nextListenerID = pre[t].nextListenerID

\* C22's case: of two subscriptions the first was cancelled before, and its
\* unsubscribe function was called once more: the second subscription, of
\* the function "f", is still there.
C22_Witness ==
  \E t \in Threads :
     /\ Unsubscribed(t)
     /\ frame[t].token = 1
     /\ nextListenerID = 2
     /\ pre[t].listeners = << [id |-> 2, fn |-> "f"] >>
     /\ listeners = << [id |-> 2, fn |-> "f"] >>

\* A Refresh call has returned to where its caller reads the version.
Refreshed(t) ==
  /\ pc[t] = "ret"
  /\ frame[t].op = "Refresh"

\* What holds when a Refresh call of a sequential caller returns.
RefreshReturns(t) ==
  /\ ret[t].err = ErrNone
  /\ ret[t].version = indexVersion
  /\ ret[t].version > pre[t].indexVersion
  /\ ~searchDocsDirty
  /\ searchDocsVersion = ret[t].version
  /\ searchDocs = << rebuiltDocs(tools) >>
  /\ Tokens(ret[t].notified) = Tokens(pre[t].listeners)
  /\ \A i \in 1..Len(ret[t].notified) :
        ret[t].notified[i].event =
          [Type |-> ChangeRefreshed, ToolID |-> << >>, Backend |-> ZeroBackend,
           Version |-> ret[t].version]
  /\ tools = pre[t].tools
  /\ namespaces = pre[t].namespaces
  /\ namespaceCounts = pre[t].namespaceCounts
  /\ listeners = pre[t].listeners

\* C23: a Refresh call returns the version the index has at its return, which
\* is larger than the version at its invocation (and the version never
\* decreases, so larger than what any earlier Refresh returned); at its
\* return the cache is clean, built from the records and stamped with that
\* version, so that a Search that rebuilds is the first build of its version;
\* each subscriber got one 'refreshed' event with that version; and records,
\* backends, namespaces and listeners are what they were.
C23_RefreshRebuildsAndReports ==
  /\ [](\A t \in Threads :
          /\ Refreshed(t) => RefreshReturns(t)
          /\ (pc[t] = "ret" /\ frame[t].op = "Search" /\ ret[t].path = "rebuilt")
               => searchDocsBuilds = 1)
  /\ [][indexVersion' >= indexVersion]_vars

\* C23's case: a Refresh call returned version 3 on a registry with a tool
\* and a subscriber, whose cache was clean when the call was made.
C23_Witness ==
  \E t \in Threads :
     /\ Refreshed(t)
     /\ ret[t].version = 3
     /\ ~pre[t].searchDocsDirty
     /\ tools # << >>
     /\ Len(ret[t].notified) = 1

\* The JSON value a schema value denotes: JSON text denotes what it parses
\* to, a Go int the number, a map or slice the object or array of what its
\* elements denote.
RECURSIVE JSONValue(_)
JSONValue(x) ==
  IF IsBytes(x)
  THEN LET u == jsonUnmarshal(x.v)
       IN  IF u.ok THEN u.val ELSE [t |-> "malformed", v |-> x.v]
  ELSE CASE x.t = "int" -> JFloat(x.v)
         [] x.t = "map" -> JMap([k \in DOMAIN x.v |-> JSONValue(x.v[k])])
         [] x.t = "slice" -> JSlice([i \in 1..Len(x.v) |-> JSONValue(x.v[i])])
         [] OTHER -> x

\* Two schema values denote the same JSON value (text that is not JSON
\* denotes none).
SameJSON(a, b) ==
  /\ JSONValue(a).t # "malformed"
  /\ JSONValue(a) = JSONValue(b)

\* A jsonEqual call has returned to toolMCPFieldsEqual.
JsonCompared(t) ==
  /\ pc[t] = "ret"
  /\ frame[t].op = "jsonEqual"

\* C27: jsonEqual(a, b) returns true exactly when a and b denote the same
\* JSON value, and jsonEqual(b, a) ends as jsonEqual(a, b) does.
C27_SchemaEqualityIsJSONEquality ==
  \A t \in Threads :
     JsonCompared(t) =>
       /\ ret[t].ends = Returns(SameJSON(frame[t].a, frame[t].b))
       /\ ret[t].ends = jsonEqual(frame[t].b, frame[t].a)

\* Schema values as JSON decoding produces them, or JSON text, with no Go int
\* inside.
NoGoInt(x) ==
  /\ x.t # "int"
  /\ x.t = "map" => \A k \in DOMAIN x.v : x.v[k].t # "int"
  /\ x.t = "slice" => \A i \in 1..Len(x.v) : x.v[i].t # "int"

\* What does hold of jsonEqual: on values without a Go int, and not nil
\* against the JSON text null, it returns true exactly when the two denote
\* the same JSON value, in either order.
JsonEqualOnDecodedValues ==
  \A t \in Threads :
     (/\ JsonCompared(t)
      /\ NoGoInt(frame[t].a) /\ NoGoInt(frame[t].b)
      /\ ~(frame[t].a = JNil /\ IsBytes(frame[t].b))
      /\ ~(frame[t].b = JNil /\ IsBytes(frame[t].a)))
       => /\ ret[t].ends = Returns(SameJSON(frame[t].a, frame[t].b))
          /\ ret[t].ends = jsonEqual(frame[t].b, frame[t].a)

\* The configured searcher says it is not deterministic.
DeclaresNonDeterministic(s) ==
  /\ "Deterministic" \in DOMAIN s
  /\ ~s.Deterministic

\* C26: SearchPage on a registry whose searcher declares itself
\* non-deterministic returns an error, no page and no cursor.
C26_PagingNeedsDeterminism ==
  \A t \in Threads :
     (/\ pc[t] = "ret"
      /\ frame[t].op = "SearchPage"
      /\ frame[t].limit > 0
      /\ DeclaresNonDeterministic(searcher))
       => /\ ret[t].err # ErrNone
          /\ ret[t].out = << >>
          /\ ret[t].next = EmptyCursor

\* ------------------------------------------- repeated read calls (RepeatSpec)
MaxRepeatVersion == 3

RepeatQueries == { << >>, << "a" >> }

\* The documents of "n:a" and "n:b" in both orders.
RepeatDocs ==
  {docs \in DocLists : Range(docs) = {SearchDocOf(ToolA), SearchDocOf(ToolB)}}

\* The arguments of the call of frame f, with the number of successful
\* mutations so far; a call on the searcher alone depends on no mutation.
callOf(f) ==
  [query |-> IF "query" \in DOMAIN f THEN f.query ELSE << >>,
   limit |-> IF "limit" \in DOMAIN f THEN f.limit ELSE 0,
   docs  |-> IF "docs" \in DOMAIN f THEN f.docs ELSE << >>,
   nmut  |-> IF f.op = "lexicalSearcher.Search" THEN 0 ELSE nmut]

\* What the caller keeps of the call of frame f that returns r: the
\* arguments, the result, and the version of the snapshot it was computed on.
kept(f, r) ==
  [query |-> callOf(f).query, limit |-> callOf(f).limit, docs |-> callOf(f).docs,
   nmut |-> callOf(f).nmut, out |-> r.out,
   version |-> IF "version" \in DOMAIN r THEN r.version ELSE 0]

\* Whether the kept result c is one of the same call as the one of frame f
\* with no successful mutation since.
SameCall(c, f) ==
  /\ c.query = callOf(f).query
  /\ c.limit = callOf(f).limit
  /\ c.docs = callOf(f).docs
  /\ c.nmut = callOf(f).nmut

\* What the caller keeps when the call of t returns: the last result of each
\* kind of call, without those a successful mutation has come after.
Remembered(t) ==
  /\ stack[t] = << >>
  /\ seen' = [op \in RepeatOps |->
                CASE op = frame[t].op -> kept(frame[t], ret[t])
                  [] seen[op].nmut \in {0 - 1, callOf([op |-> op]).nmut} -> seen[op]
                  [] OTHER -> NoCall]
  /\ UNCHANGED << pre, bound, searcher, stack >>

RepeatStep(t) ==
  \/ Lock(t)
  \/ RLock(t)
  \/ RegisterApply(t)
  \/ Commit(t)
  \/ Notify(t)
  \/ ReadApply(t)
  \/ SnapshotFast(t)
  \/ SnapshotSlow(t)
  \/ RefreshApply(t)

RepeatNext ==
  \E t \in {1} :
     \/ /\ \/ \E in \in PageRegInputs :
                Budget(MaxRepeatVersion) /\ RegisterTool(t, in[1], in[2])
           \/ Budget(MaxRepeatVersion) /\ Refresh(t)
           \/ \E query \in RepeatQueries : Search(t, query, MaxLimit)
           \/ ListNamespaces(t)
        /\ UNCHANGED << pre, bound, restVars >>
     \/ /\ \E query \in RepeatQueries, docs \in RepeatDocs :
             LexicalSearch(t, query, MaxLimit, docs)
        /\ UNCHANGED << pre, bound, restVars >>
     \/ RepeatStep(t) /\ UNCHANGED << pre, bound, restVars >>
     \/ Return(t) /\ Remembered(t)

RepeatSpec == Init /\ [][RepeatNext]_vars

\* C28: a read call that returns gives what the last call of the same kind
\* with the same arguments gave, when no successful mutation lies between the
\* two: Search and ListNamespaces on the registry (a Refresh between the two
\* changes nothing either), and the lexical searcher on the same query, limit
\* and documents.
C28_RepeatedCallsAgree ==
  \A t \in Threads :
     (pc[t] = "ret" /\ frame[t].op \in RepeatOps
        /\ SameCall(seen[frame[t].op], frame[t]))
       => ret[t].out = seen[frame[t].op].out

\* C28 witness: the cache has been rebuilt since the kept Search result, a
\* Search with the same arguments returns at least two results, and a
\* ListNamespaces call repeats one that returned two namespaces.
RepeatedSearch(t) ==
  /\ pc[t] = "ret"
  /\ frame[t].op = "Search"
  /\ SameCall(seen["Search"], frame[t])
  /\ Len(ret[t].out) >= 2
  /\ ret[t].version > seen["Search"].version

C28_Witness ==
  /\ RepeatedSearch(1)
  /\ Len(seen["ListNamespaces"].out) >= 2
  /\ seen["ListNamespaces"].nmut = nmut

\* ------------------------------------------------ batch registration (BatchSpec)
MaxBatchVersion == 3
MaxBatch == 3

BatchOps == {"RegisterTools", "RegisterToolsFromMCP"}

\* toolindex.ToolRegistration
ToolRegistration(tool, backend) == [Tool |-> tool, Backend |-> backend]

\* RegisterTools: the call enters the loop over regs.
RegisterTools(t, regs) ==
  /\ pc[t] = "idle"
  /\ pc' = [pc EXCEPT ![t] = "loop"]
  /\ frame' = [frame EXCEPT ![t] =
                 [op |-> "RegisterTools", regs |-> regs, done |-> << >>]]
  /\ UNCHANGED << dataVars, listenerVars, cacheVars, indexVersion, mu, ret, histVars >>

\* RegisterToolsFromMCP: one MCP backend for the server name, shared by the
\* entries, then the same loop.
RegisterToolsFromMCP(t, serverName, ts) ==
  /\ pc[t] = "idle"
  /\ pc' = [pc EXCEPT ![t] = "loop"]
  /\ frame' = [frame EXCEPT ![t] =
                 [op |-> "RegisterToolsFromMCP",
                  regs |-> [i \in 1..Len(ts) |->
                              ToolRegistration(ts[i], makeMCPBackend(serverName))],
                  done |-> << >>]]
  /\ UNCHANGED << dataVars, listenerVars, cacheVars, indexVersion, mu, ret, histVars >>

\* The loop that goes on after an entry has failed, and returns nil.
registerToolsLoop_KeepGoing(regs, done) ==
  IF Len(done) = Len(regs)
  THEN [do |-> "return", err |-> ErrNone]
  ELSE [do |-> "call", reg |-> regs[Len(done) + 1]]

\* What the loop of RegisterTools and RegisterToolsFromMCP does once the
\* calls in done have returned: it returns the error of the last call if it
\* has one, nil when the list is exhausted, and otherwise calls RegisterTool
\* on the next entry.
registerToolsLoop(regs, done) ==
  IF done # << >> /\ done[Len(done)].err # ErrNone
  THEN [do |-> "return", err |-> done[Len(done)].err]
  ELSE IF Len(done) = Len(regs)
  THEN [do |-> "return", err |-> ErrNone]
  ELSE [do |-> "call", reg |-> regs[Len(done) + 1]]

\* One turn of the loop: the batch returns, or its frame goes on the stack
\* for the call of RegisterTool on the next entry.
BatchLoop(t) ==
  LET nx == registerToolsLoop(frame[t].regs, frame[t].done) IN
  /\ pc[t] = "loop"
  /\ IF nx.do = "return"
     THEN /\ pc' = [pc EXCEPT ![t] = "ret"]
          /\ ret' = [ret EXCEPT ![t] = [err |-> nx.err, done |-> frame[t].done]]
          /\ UNCHANGED << frame, stack >>
     ELSE /\ pc' = [pc EXCEPT ![t] = "idle"]
          /\ stack' = [stack EXCEPT ![t] = << frame[t] >> \o @]
          /\ frame' = [frame EXCEPT ![t] = NoFrame]
          /\ ret' = ret
  /\ UNCHANGED << dataVars, listenerVars, cacheVars, indexVersion, mu, histVars,
                  searcher, seen, pre, bound >>

\* The call of RegisterTool the loop makes on the entry it has reached.
BatchCall(t) ==
  /\ stack[t] # << >>
  /\ LET b == Head(stack[t])
         reg == registerToolsLoop(b.regs, b.done).reg
     IN  RegisterTool(t, reg.Tool, reg.Backend)

\* RegisterTool returns to the loop, which keeps what it returned.
BatchResume(t) ==
  /\ pc[t] = "ret"
  /\ stack[t] # << >>
  /\ pc' = [pc EXCEPT ![t] = "loop"]
  /\ frame' = [frame EXCEPT ![t] =
                 [Head(stack[t]) EXCEPT !.done =
                    Append(@, [err |-> ret[t].err, notified |-> ret[t].notified,
                               Tool |-> frame[t].tool, Backend |-> frame[t].backend])]]
  /\ ret' = [ret EXCEPT ![t] = NoRet]
  /\ stack' = [stack EXCEPT ![t] = Tail(@)]
  /\ UNCHANGED << dataVars, listenerVars, cacheVars, indexVersion, mu, histVars,
                  searcher, seen, pre, bound >>

\* The entries of the batches: "n:a", "n:b", "n:a" with another description
\* (a conflict once "n:a" is registered), and a tool without a name.
BatchEntries ==
  {ToolRegistration(tool, BackendLocal) : tool \in {ToolA, ToolB, ToolADesc, ToolNoName}}

BatchLists == UNION {[1..n -> BatchEntries] : n \in 0..MaxBatch}

BatchTools == UNION {[1..n -> {ToolA, ToolB, ToolNoName}] : n \in 0..MaxBatch}

BatchStep(t) ==
  \/ Lock(t)
  \/ RegisterApply(t)
  \/ Commit(t)
  \/ Notify(t)
  \/ OnChangeApply(t)

BatchNext ==
  \E t \in {1} :
     \/ /\ stack[t] = << >>
        /\ \/ \E regs \in BatchLists :
                indexVersion + Len(regs) <= MaxBatchVersion /\ RegisterTools(t, regs)
           \/ \E serverName \in { << >>, << "m" >> }, ts \in BatchTools :
                indexVersion + Len(ts) <= MaxBatchVersion
                  /\ RegisterToolsFromMCP(t, serverName, ts)
           \/ nextListenerID < 1 /\ OnChange(t, << "f" >>)
        /\ Invoked(t)
     \/ BatchLoop(t)
     \/ BatchCall(t) /\ UNCHANGED << pre, bound, restVars >>
     \/ BatchResume(t)
     \/ BatchStep(t) /\ UNCHANGED << pre, bound, restVars >>
     \/ Return(t) /\ Returned(t)

BatchSpec == Init /\ [][BatchNext]_vars

\* The batch of t has returned to its caller.
BatchReturns(t) ==
  pc[t] = "ret" /\ frame[t].op \in BatchOps /\ stack[t] = << >>

\* The calls of the batch that succeeded, in order.
Applied(done) == SelectSeq(done, LAMBDA d : d.err = ErrNone)

\* C24: when RegisterTools or RegisterToolsFromMCP returns, RegisterTool has
\* been called on a prefix of the list, in list order; all these calls but
\* possibly the last succeeded; the batch returns the error of the last call
\* when it failed, and nil only when the whole list was called. Each call
\* that succeeded raised the version by one and delivered its event to the
\* listeners, the records hold for each ID the tool of the last call that
\* succeeded on it, and the records of other IDs are as they were when the
\* batch was invoked: nothing of the entries after the failed one is there.
C24_BatchStopsAtFirstFailure ==
  \A t \in Threads :
     BatchReturns(t) =>
       LET regs == frame[t].regs
           done == ret[t].done
           n    == Len(done)
           ok   == Applied(done)
           was  == pre[t]
       IN  /\ n <= Len(regs)
           /\ \A i \in 1..n : /\ done[i].Tool = regs[i].Tool
                              /\ done[i].Backend = regs[i].Backend
                              /\ i < n => done[i].err = ErrNone
           /\ ret[t].err = (IF n > 0 THEN done[n].err ELSE ErrNone)
           /\ ret[t].err = ErrNone => n = Len(regs)
           /\ indexVersion = was.indexVersion + Len(ok)
           /\ \A j \in 1..Len(ok) :
                 /\ Len(ok[j].notified) = Len(listeners)
                 /\ \A e \in Range(ok[j].notified) :
                       /\ e.event.Version = was.indexVersion + j
                       /\ e.event.ToolID = ToolID(ok[j].Tool)
           /\ \A id \in DOMAIN tools \cup DOMAIN was.tools :
                 IF \E j \in 1..Len(ok) : ToolID(ok[j].Tool) = id
                 THEN LET last == CHOOSE j \in 1..Len(ok) :
                                    /\ ToolID(ok[j].Tool) = id
                                    /\ \A l \in (j + 1)..Len(ok) : ToolID(ok[l].Tool) # id
                      IN  /\ id \in DOMAIN tools
                          /\ tools[id].tool = ok[last].Tool
                          /\ \E i \in 1..Len(tools[id].backends) :
                                tools[id].backends[i] = ok[last].Backend
                 ELSE /\ id \in DOMAIN tools
                      /\ id \in DOMAIN was.tools
                      /\ tools[id] = was.tools[id]

\* C24 witness: a batch of three entries returns the error of its second
\* entry with a listener subscribed: the first entry is registered and its
\* event delivered, the third was never called.
C24_Witness ==
  /\ BatchReturns(1)
  /\ Len(frame[1].regs) = 3
  /\ Len(ret[1].done) = 2
  /\ ret[1].err # ErrNone
  /\ ret[1].done[1].err = ErrNone
  /\ ret[1].done[1].notified # << >>
  /\ ToolID(frame[1].regs[3].Tool) \notin DOMAIN tools
  /\ ToolValid(frame[1].regs[3].Tool)

\* --------------------------------- callers that write into results (AliasSpec)
MaxAliasVersion == 3

\* What the caller stores: a tag and a backend name no registration uses.
CallerTag == << "x" >>
CallerName == << "z" >>

\* The writes a caller can make into what the call of frame f returned as r.
\* A Summary's Tags is the slice buildSummary was given; the slice of
\* summaries, the slice of backends and the slice of namespaces are made by
\* the call; a backend is a struct whose MCP, Provider and Local are pointers,
\* copied as pointers.
writesInto(f, r) ==
  IF r.err # ErrNone THEN {}
  ELSE CASE f.op = "Search" ->
              {[kind |-> "Tags", id |-> r.out[i].ID, at |-> k] :
                 i \in 1..Len(r.out), k \in 1..MaxLimit}
              \cup {[kind |-> "element", id |-> r.out[i].ID, at |-> i] :
                      i \in 1..Len(r.out)}
         [] f.op = "GetAllBackends" ->
              {[kind |-> k, id |-> f.id, at |-> i] :
                 k \in {"pointee", "element"}, i \in 1..Len(r.backends)}
         [] f.op = "ListNamespaces" ->
              {[kind |-> "element", id |-> << >>, at |-> i] : i \in 1..Len(r.out)}
         [] OTHER -> {}

\* A backend after the caller has written a name through its pointer.
renamed(b) ==
  CASE b.Kind = BackendKindLocal -> [b EXCEPT !.Local[1].Name = CallerName]
    [] b.Kind = BackendKindMCP -> [b EXCEPT !.MCP[1].ServerName = CallerName]
    [] OTHER -> b

\* The records after the write w. Tags[at] of a returned Summary is the
\* element at of the record's normalizedTags, which the record's summary
\* shares; the pointer of a returned backend is the pointer of the record's
\* backend; an element of a returned slice is the caller's own.
writtenRecords(recs, w) ==
  CASE w.kind = "Tags" /\ w.at <= Len(recs[w.id].normalizedTags) ->
         [recs EXCEPT ![w.id].normalizedTags[w.at] = CallerTag,
                      ![w.id].summary.Tags[w.at] = CallerTag]
    [] w.kind = "pointee" ->
         [recs EXCEPT ![w.id].backends[w.at] = renamed(@)]
    [] OTHER -> recs

\* The cached documents after the write w: the Summary of a document is a
\* copy of the record's, with the same Tags slice.
writtenDocs(docs, w) ==
  IF w.kind = "Tags"
  THEN [j \in 1..Len(docs) |->
          IF docs[j].ID = w.id /\ w.at <= Len(docs[j].Summary.Tags)
          THEN [docs[j] EXCEPT !.Summary.Tags[w.at] = CallerTag]
          ELSE docs[j]]
  ELSE docs

\* The call of t returns and its caller writes into the result.
CallerWrites(t) ==
  /\ pc[t] = "ret"
  /\ \E w \in writesInto(frame[t], ret[t]) :
        /\ tools' = writtenRecords(tools, w)
        /\ searchDocs' = [n \in DOMAIN searchDocs |-> writtenDocs(searchDocs[n], w)]
  /\ pc' = [pc EXCEPT ![t] = "idle"]
  /\ frame' = [frame EXCEPT ![t] = NoFrame]
  /\ ret' = [ret EXCEPT ![t] = NoRet]
  /\ UNCHANGED << namespaces, namespaceCounts, listenerVars, searchDocsDirty,
                  searchDocsVersion, searchDocsBuilds, indexVersion, mu, histVars >>

AliasRegInputs == {ToolA, ToolB} \X {BackendLocal, BackendMCP}

AliasStep(t) ==
  \/ Lock(t)
  \/ RLock(t)
  \/ RegisterApply(t)
  \/ Commit(t)
  \/ Notify(t)
  \/ ReadApply(t)
  \/ SnapshotFast(t)
  \/ SnapshotSlow(t)

AliasNext ==
  \E t \in {1} :
     \/ /\ \/ \E in \in AliasRegInputs :
                Budget(MaxAliasVersion) /\ RegisterTool(t, in[1], in[2])
           \/ Search(t, << >>, MaxLimit)
           \/ GetAllBackends(t, ToolID(ToolA))
           \/ ListNamespaces(t)
        /\ Invoked(t)
     \/ AliasStep(t) /\ UNCHANGED << pre, bound, restVars >>
     \/ CallerWrites(t) /\ Returned(t)
     \/ Return(t) /\ Returned(t)

AliasSpec == Init /\ [][AliasNext]_vars

\* C25: whatever callers have written into earlier results, Search returns
\* the summaries of the tools as they were registered, GetAllBackends the
\* backends as they were registered, and ListNamespaces the namespaces of the
\* registered tools.
C25_ResultsAreDefensiveCopies ==
  \A t \in Threads :
     (pc[t] = "ret" /\ ret[t].err = ErrNone) =>
       CASE frame[t].op = "Search" ->
              \A i \in 1..Len(ret[t].out) :
                 LET tool == tools[ret[t].out[i].ID].tool
                 IN  ret[t].out[i] = buildSummary(tool, NormalizeTags(tool.Tags))
         [] frame[t].op = "GetAllBackends" ->
              ret[t].backends = bound[frame[t].id]
         [] frame[t].op = "ListNamespaces" ->
              Range(ret[t].out) = {tools[id].tool.Namespace : id \in DOMAIN tools}
         [] OTHER -> TRUE

\* What does hold: ListNamespaces is not affected by the writes.
NamespacesUnaffectedByWrites ==
  \A t \in Threads :
     (pc[t] = "ret" /\ frame[t].op = "ListNamespaces") =>
        Range(ret[t].out) = {tools[id].tool.Namespace : id \in DOMAIN tools}

\* --------------------------------------- listeners at work (CallbackSpec)
MaxCallbackVersion == 2
MaxCallbackListeners == 2

\* The listener functions of this specification: "q" reads the registry,
\* "m" registers the tool "n:b" when it hears of "n:a", "h" never returns.
CallbackListeners == { << "q" >>, << "m" >>, << "h" >> }

\* No listener subscribes after "h": notifyListeners never gets past it.
\* What the listener function fn does when it is called with the event.
listenerDoes(fn, event) ==
  CASE fn = "q" -> "GetTool"
    [] fn = "m" /\ event.ToolID = ToolID(ToolA) -> "RegisterTool"
    [] fn = "h" -> "hangs"
    [] OTHER -> "returns"

\* What the listener notifyListeners has reached in the frame f does.
callbackOf(f) == listenerDoes(f.pending[1].fn, EventOf(f))

\* Where a goroutine waits for the lock or holds it.
LockPhase == {"lock", "lockwait", "rlock", "cs", "rcs", "commit"}

\* notifyListeners calls a listener that calls the registry: the frame of
\* the notifying call stays on the stack.
CallbackCall(t) ==
  /\ pc[t] = "notify"
  /\ frame[t].pending # << >>
  /\ callbackOf(frame[t]) \in {"GetTool", "RegisterTool"}
  /\ stack' = [stack EXCEPT ![t] = << frame[t] >> \o @]
  /\ pc' = [pc EXCEPT ![t] = "idle"]
  /\ frame' = [frame EXCEPT ![t] = NoFrame]
  /\ UNCHANGED << dataVars, listenerVars, cacheVars, indexVersion, mu, ret, histVars,
                  searcher, seen, pre, bound >>

\* The call the listener makes.
CallbackEnters(t) ==
  /\ stack[t] # << >>
  /\ IF callbackOf(Head(stack[t])) = "GetTool"
     THEN GetTool(t, ToolID(ToolA))
     ELSE RegisterTool(t, ToolB, BackendLocal)

\* The call of the listener returns, the listener returns, and
\* notifyListeners goes on to the next listener.
CallbackResume(t) ==
  /\ pc[t] = "ret"
  /\ stack[t] # << >>
  /\ LET f == Head(stack[t])
     IN  frame' = [frame EXCEPT ![t] =
                     [f EXCEPT !.pending = Tail(@),
                               !.notified = Append(@, [id |-> f.pending[1].id,
                                                       event |-> EventOf(f)])]]
  /\ pc' = [pc EXCEPT ![t] = "notify"]
  /\ ret' = [ret EXCEPT ![t] = NoRet]
  /\ stack' = [stack EXCEPT ![t] = Tail(@)]
  /\ UNCHANGED << dataVars, listenerVars, cacheVars, indexVersion, mu, histVars,
                  searcher, seen, pre, bound >>

\* notifyListeners on a listener that returns without calling the registry,
\* or at the end of the list.
CallbackReturns(t) ==
  /\ pc[t] = "notify"
  /\ frame[t].pending # << >> => callbackOf(frame[t]) = "returns"
  /\ Notify(t)

\* The steps of a goroutine that waits for the lock or holds it.
CallbackAcquire(t) ==
  (Lock(t) \/ RLock(t)) /\ UNCHANGED << pre, bound, restVars >>

CallbackLocked(t) ==
  /\ \/ LockWait(t)
     \/ RegisterApply(t)
     \/ Commit(t)
     \/ ReadApply(t)
     \/ RefreshApply(t)
     \/ OnChangeApply(t)
  /\ UNCHANGED << pre, bound, restVars >>

CallbackNext ==
  \E t \in Threads :
     \/ /\ stack[t] = << >>
        /\ \/ t = 1 /\ Budget(MaxCallbackVersion) /\ RegisterTool(t, ToolA, BackendLocal)
           \/ t = 2 /\ Budget(MaxCallbackVersion) /\ Refresh(t)
           \/ GetTool(t, ToolID(ToolA))
           \/ \E fn \in CallbackListeners :
                /\ t = 1
                /\ \A i \in 1..Len(listeners) : listeners[i].fn # "h"
                /\ nextListenerID + Cardinality({u \in Threads : pc[u] \in LockPhase})
                     < MaxCallbackListeners
                /\ OnChange(t, fn)
        /\ UNCHANGED << pre, bound, restVars >>
     \/ CallbackAcquire(t)
     \/ CallbackLocked(t)
     \/ CallbackReturns(t) /\ UNCHANGED << pre, bound, restVars >>
     \/ CallbackCall(t)
     \/ CallbackEnters(t) /\ UNCHANGED << pre, bound, restVars >>
     \/ CallbackResume(t)
     \/ stack[t] = << >> /\ Return(t) /\ UNCHANGED << pre, bound, restVars >>

CallbackSpec == Init /\ [][CallbackNext]_vars

\* The scheduler runs every goroutine that can take a step inside the lock;
\* a goroutine that waits for the lock gets it if the lock is free again and
\* again (sync.RWMutex hands the lock to waiters that starve). Nothing is
\* assumed of the listeners or of the callers: a callback may never return.
CallbackFairSpec ==
  /\ CallbackSpec
  /\ \A t \in Threads : WF_vars(CallbackLocked(t)) /\ SF_vars(CallbackAcquire(t))

\* C21: a goroutine that is in a listener callback, or whose callback has
\* called the registry and waits for the lock, holds no lock of the
\* registry; and whoever waits for the lock or holds it leaves the locked
\* part of its call, whatever the callbacks of the other goroutines do, also
\* when the call was made from a callback.
C21_CallbacksDoNotBlock ==
  /\ [](\A t \in Threads :
          pc[t] \in {"notify", "idle", "lock", "rlock"} => mu.w # t /\ t \notin mu.r)
  /\ \A t \in Threads : (pc[t] \in LockPhase) ~> (pc[t] \notin LockPhase)

\* C21 witness: goroutine 1 is in the callback of the listener that never
\* returns, called for the RegisterTool that another listener made from its
\* own callback; goroutine 2 has refreshed the registry since and is in a
\* callback itself.
C21_Witness ==
  /\ pc[1] = "notify"
  /\ stack[1] # << >>
  /\ frame[1].pending # << >>
  /\ callbackOf(frame[1]) = "hangs"
  /\ pc[2] = "notify"
  /\ frame[2].op = "Refresh"
  /\ frame[2].version > frame[1].version

\* ---------------------------------------------------------------- ranking
\* The score of a document for a folded query as the ranking rule states it:
\* the sum of what each kind of match is worth.
RuleScore(doc, q) ==
  LET name == ToLower(doc.Summary.Name)
      ns == ToLower(doc.Summary.Namespace)
      inName == Contains(name, q)
      inNs == Contains(ns, q)
  IN  (IF inName THEN 100 ELSE 0)
        + (IF inName /\ name = q THEN 50 ELSE 0)
        + (IF inNs THEN 50 ELSE 0)
        + (IF ~inName /\ ~inNs /\ Contains(doc.DocText, q) THEN 10 ELSE 0)

\* The documents of docs that the results out come from, one per result, in
\* order: the positions in docs of the results.
Sources(out, docs) ==
  {src \in [1..Len(out) -> 1..Len(docs)] :
     /\ \A i \in 1..Len(out) : docs[src[i]].Summary = out[i]
     /\ \A i, j \in 1..Len(out) : i # j => src[i] # src[j]}

\* C31: for a query that is not blank and a limit that is not negative, the
\* lexical searcher returns documents of its input, each once; each scores
\* more than 0 by the ranking rule, none scores less than a later one, there
\* are at most limit of them, and a document is left out only when it scores
\* 0 or when limit documents that score no less are returned.
C31_RankedByScore ==
  \A t \in Threads :
     (/\ LexicalSearched(t)
      /\ TrimSpace(frame[t].query) # << >>
      /\ frame[t].limit >= 0)
       => LET out == ret[t].out
              docs == frame[t].docs
              q == ToLower(TrimSpace(frame[t].query))
          IN  /\ ret[t].err = ErrNone
              /\ ~ret[t].panic
              /\ Len(out) <= frame[t].limit
              /\ \E src \in Sources(out, docs) :
                    /\ \A i \in 1..Len(out) : RuleScore(docs[src[i]], q) > 0
                    /\ \A i, j \in 1..Len(out) :
                          i < j => RuleScore(docs[src[i]], q) >= RuleScore(docs[src[j]], q)
                    /\ \A k \in 1..Len(docs) :
                          (k \notin Range(src) /\ RuleScore(docs[k], q) > 0)
                            => /\ Len(out) = frame[t].limit
                               /\ \A i \in 1..Len(out) :
                                     RuleScore(docs[src[i]], q) >= RuleScore(docs[k], q)

\* C31 witness: a search for "n" with limit 2 over three documents returns a
\* document that scores 150 (name and namespace contain the query) before one
\* that scores 50 (the namespace alone), and leaves out one that scores 0.
C31_Witness ==
  /\ LexicalSearched(1)
  /\ frame[1].query = << "n" >>
  /\ frame[1].limit = 2
  /\ Len(frame[1].docs) = 3
  /\ Len(ret[1].out) = 2
  /\ RuleScore(SearchDocOf(ToolAN), << "n" >>) = 150
  /\ ret[1].out[1] = SearchDocOf(ToolAN).Summary
  /\ ret[1].out[2] = SearchDocOf(ToolA).Summary
  /\ SearchDocOf(ToolBare) \in Range(frame[1].docs)
  /\ RuleScore(SearchDocOf(ToolBare), << "n" >>) = 0

\* ----------------------------------------------------------- next cursors
\* A paging call with a positive limit has returned a page.
PageReturned(t) == Paged(t) /\ ret[t].err = ErrNone

\* The offset the call of frame f starts at.
StartOffset(f) == decodeCursor(f.cursor).Offset

\* The call of t is the next call of the caller's walk: same operation, query
\* and limit, the cursor of the last page, no mutation since the first page.
WalkGoesOn(t) ==
  /\ Continues(t)
  /\ walk.kind = frame[t].op
  /\ walk.query = frame[t].query
  /\ walk.limit = frame[t].limit
  /\ walk.start = nmut

\* The number of pages of limit items that total items take.
PagesFor(total, limit) == (total + limit - 1) \div limit

\* C32: a paging call that returns a page returns the empty next cursor
\* exactly when the page ends at or after the end of the full result;
\* otherwise the next cursor decodes to the offset of the call plus the
\* length of the page, with the version of the call as its checksum (which
\* is the checksum of the cursor the call was given, if any). A walk that
\* follows the cursors from the empty one has made, when the empty next
\* cursor comes, as many calls as the full result has pages of limit items
\* (one call when the result is empty).
C32_NextCursor ==
  \A t \in Threads :
     PageReturned(t) =>
       LET f == frame[t]
           total == Len(FullResult(f))
           reached == StartOffset(f) + Len(ret[t].out)
           next == decodeCursor(ret[t].next)
           calls == IF f.cursor = EmptyCursor THEN 1 ELSE walk.pages + 1
       IN  /\ (ret[t].next = EmptyCursor) <=> (reached >= total)
           /\ ret[t].next # EmptyCursor
                => /\ next.err = ErrNone
                   /\ next.Offset = reached
                   /\ next.Checksum = indexVersion
                   /\ f.cursor # EmptyCursor
                        => next.Checksum = decodeCursor(f.cursor).Checksum
           /\ (f.cursor = EmptyCursor \/ WalkGoesOn(t))
                => /\ StartOffset(f) = (calls - 1) * f.limit
                   /\ ret[t].next = EmptyCursor
                        => calls = (IF total = 0 THEN 1 ELSE PagesFor(total, f.limit))

\* C32 witness: the third call of a walk with limit 1 over three results
\* returns the last one and the empty next cursor.
C32_Witness ==
  /\ PageReturned(1)
  /\ WalkGoesOn(1)
  /\ frame[1].limit = 1
  /\ walk.pages = 2
  /\ Len(FullResult(frame[1])) = 3
  /\ Len(ret[1].out) = 1
  /\ ret[1].next = EmptyCursor

\* ------------------------------------------------- offsets past the end
\* The call of t was given a well-formed cursor whose checksum is the
\* current index version.
CurrentCursor(t) ==
  /\ Paged(t)
  /\ frame[t].cursor # EmptyCursor
  /\ decodeCursor(frame[t].cursor).err = ErrNone
  /\ decodeCursor(frame[t].cursor).Checksum = indexVersion

\* C33: a paging call (with a positive limit) that is given a well-formed
\* cursor of the current index version whose offset is the length of the
\* full result or more returns no error, an empty page and the empty next
\* cursor.
C33_OffsetPastEnd ==
  \A t \in Threads :
     (CurrentCursor(t) /\ StartOffset(frame[t]) >= Len(FullResult(frame[t])))
       => /\ ret[t].err = ErrNone
          /\ ret[t].out = << >>
          /\ ret[t].next = EmptyCursor

\* C33 witness: on a registry with tools, SearchPage was given a cursor of
\* the current version whose offset exceeds the number of results, and
\* returned an empty page.
C33_Witness ==
  /\ CurrentCursor(1)
  /\ frame[1].op = "SearchPage"
  /\ Len(FullResult(frame[1])) >= 2
  /\ StartOffset(frame[1]) > Len(FullResult(frame[1]))
  /\ ret[1].err = ErrNone
  /\ ret[1].out = << >>

\* ------------------------------------------- the round-trip specification
\* One goroutine binds backends to the tool "n:a" and unregisters them by
\* the backendID that belongs to each: the server name, the handler name, or
\* ProviderID, ":" and ToolID.
MaxRoundTripVersion == 4

\* The backendID of a backend, as the documentation of UnregisterBackend
\* gives it.
backendIDOf(b) ==
  CASE b.Kind = BackendKindMCP -> b.MCP[1].ServerName
    [] b.Kind = BackendKindLocal -> b.Local[1].Name
    [] b.Kind = BackendKindProvider ->
         b.Provider[1].ProviderID \o << ":" >> \o b.Provider[1].ToolID
    [] OTHER -> << >>

RoundTripBackends ==
  {BackendLocal, BackendMCP, BackendProvider, ProviderAB_C, ProviderA_BC,
   BackendPipe}

RoundTripStep(t) ==
  \/ Lock(t)
  \/ RegisterApply(t)
  \/ UnregisterApply(t)
  \/ Commit(t)
  \/ Notify(t)

RoundTripNext ==
  \E t \in {1} :
     \/ /\ \/ \E backend \in RoundTripBackends :
                Budget(MaxRoundTripVersion) /\ RegisterTool(t, ToolA, backend)
           \/ \E b \in RoundTripBackends :
                Budget(MaxRoundTripVersion)
                  /\ UnregisterBackend(t, ToolID(ToolA), b.Kind, backendIDOf(b))
        /\ Invoked(t)
     \/ RoundTripStep(t) /\ UNCHANGED << pre, bound, restVars >>
     \/ Return(t) /\ Returned(t)

RoundTripSpec == Init /\ [][RoundTripNext]_vars

\* The sequence s without its element i.
WithoutIndex(s, i) == SubSeq(s, 1, i - 1) \o SubSeq(s, i + 1, Len(s))

\* The backends of the tool id now.
BackendsNow(id) == IF id \in DOMAIN tools THEN tools[id].backends ELSE << >>

\* UnregisterBackend returned to t, and backend number i of the tool as it
\* was at the call is one whose backendID the call was given.
AskedToRemove(t, i) ==
  /\ pc[t] = "ret"
  /\ frame[t].op = "UnregisterBackend"
  /\ frame[t].toolID \in DOMAIN pre[t].tools
  /\ i \in 1..Len(pre[t].tools[frame[t].toolID].backends)
  /\ Names(frame[t].kind, frame[t].backendID,
           pre[t].tools[frame[t].toolID].backends[i])

\* The call of t succeeded and removed backend number i and nothing else.
RemovedExactly(t, i) ==
  /\ ret[t].err = ErrNone
  /\ BackendsNow(frame[t].toolID)
       = WithoutIndex(pre[t].tools[frame[t].toolID].backends, i)

\* C34: UnregisterBackend called with the kind of a registered backend b and
\* its backendID (server name, handler name, or ProviderID ":" ToolID)
\* succeeds and leaves the tool with exactly the other backends, also when
\* ProviderID or ToolID contains ':'.
C34_RoundTrip ==
  \A t \in Threads : \A i \in 1..MaxRoundTripVersion :
     AskedToRemove(t, i) => RemovedExactly(t, i)

\* The round trip for the backends whose ProviderID has no ':' (all MCP and
\* local backends among them), on a tool that holds no other backend with
\* the same backendID.
RoundTripPlainProviderID ==
  \A t \in Threads : \A i \in 1..MaxRoundTripVersion :
     (/\ AskedToRemove(t, i)
      /\ LET bs == pre[t].tools[frame[t].toolID].backends
         IN  /\ bs[i].Kind = BackendKindProvider
                  => ~Contains(bs[i].Provider[1].ProviderID, << ":" >>)
             /\ \A j \in 1..Len(bs) :
                   Names(frame[t].kind, frame[t].backendID, bs[j]) => j = i)
       => RemovedExactly(t, i)

\* A round trip of a provider backend with ':' in its ToolID.
RoundTripColonInToolID ==
  /\ AskedToRemove(1, 1)
  /\ pre[1].tools[frame[1].toolID].backends[1] = ProviderA_BC
  /\ RemovedExactly(1, 1)

\* ------------------------------------------------- cursors across Refresh
\* The call of t presented the cursor of the last page of the caller's walk;
\* no RegisterTool or UnregisterBackend succeeded since that page was
\* returned, and the index version at the call is not the one the cursor
\* was issued at: Refresh calls, and nothing else, came in between.
AcrossRefresh(t) ==
  /\ Continues(t)
  /\ walk.epoch = pre[t].nmut
  /\ decodeCursor(frame[t].cursor).Checksum # pre[t].indexVersion

\* C35: Refresh raises the index version by one, returns the new version and
\* changes no tool, no backend and no namespace; a non-empty cursor that
\* SearchPage or ListNamespacesPage issued, presented again (with a positive
\* limit) after Refresh calls only, is rejected with ErrInvalidCursor, with
\* no page and no next cursor.
C35_RefreshInvalidatesCursors ==
  \A t \in Threads :
     /\ Refreshed(t)
          => /\ indexVersion = pre[t].indexVersion + 1
             /\ ret[t].version = indexVersion
             /\ tools = pre[t].tools
             /\ namespaces = pre[t].namespaces
             /\ namespaceCounts = pre[t].namespaceCounts
     /\ AcrossRefresh(t)
          => /\ ret[t].err = ErrInvalidCursor
             /\ ret[t].out = << >>
             /\ ret[t].next = EmptyCursor

\* C35 witness: on a registry with tools, the cursor of a first page came
\* back after a Refresh and no other change, and was rejected.
C35_Witness ==
  /\ AcrossRefresh(1)
  /\ decodeCursor(frame[1].cursor).Checksum < pre[1].indexVersion
  /\ tools # << >>
  /\ tools = pre[1].tools
  /\ ret[1].err = ErrInvalidCursor

\* ---------------------------------------------------- the read specification
\* Goroutine 1 registers tools, subscribes a listener and walks the pages
\* of ListNamespacesPage; goroutine 2 makes read calls of all six kinds at
\* any time in between.
MaxReadVersion == 2

ReadOps ==
  {"Search", "SearchPage", "ListNamespaces", "ListNamespacesPage", "GetTool",
   "GetAllBackends"}

ReadNext ==
  \E t \in Threads :
     \/ /\ t = 1
        /\ \/ \E tool \in {ToolA, ToolBare} :
                Budget(MaxReadVersion) /\ RegisterTool(t, tool, BackendLocal)
           \/ nextListenerID < 2 /\ OnChange(t, << "f" >>)
           \/ \E cursor \in PageCursors : ListNamespacesPage(t, 1, cursor, TRUE)
        /\ Invoked(t)
     \/ /\ t = 2
        /\ \/ GetTool(t, ToolID(ToolA))
           \/ GetAllBackends(t, ToolID(ToolA))
           \/ ListNamespaces(t)
           \/ Search(t, << >>, 1)
           \/ SearchPage(t, << >>, 1, EmptyCursor, FALSE)
           \/ ListNamespacesPage(t, 1, EmptyCursor, FALSE)
        /\ Invoked(t)
     \/ Step(t) /\ UNCHANGED << pre, bound, restVars >>
     \/ OnChangeApply(t) /\ UNCHANGED << pre, bound, restVars >>
     \/ Return(t) /\ Returned(t)

ReadSpec == Init /\ [][ReadNext]_vars

\* The operation goroutine t is in, before or after the step.
OpInStep(t) == IF frame[t].op = "none" THEN frame'[t].op ELSE frame[t].op

\* Goroutine t takes part in the step.
Moves(t) == pc'[t] # pc[t] \/ frame'[t] # frame[t] \/ ret'[t] # ret[t]

\* A step in which no goroutine but ones inside read operations moves: a step
\* of a read operation, from its call to its return.
ReadStep == \A t \in Threads : Moves(t) => OpInStep(t) \in ReadOps

\* The step changes nothing of what the index holds and calls no listener.
LeavesIndexAlone ==
  /\ UNCHANGED << indexVersion, tools, namespaces, namespaceCounts, listeners,
                  nextListenerID >>
  /\ \A t \in Threads : Moves(t) => pc'[t] # "notify"

\* The walking goroutine presented the cursor of its last page; since that
\* page was returned no mutation succeeded and the version did not change.
OnlyReadsSince(t) ==
  /\ Continues(t)
  /\ walk.kind = frame[t].op
  /\ walk.epoch = pre[t].nmut
  /\ decodeCursor(frame[t].cursor).Checksum = pre[t].indexVersion

\* C36: no step of a read operation (Search, SearchPage, ListNamespaces,
\* ListNamespacesPage, GetTool, GetAllBackends), the rebuild of the cache
\* included, changes the index version, the records with their backends, the
\* namespaces or the listener list, or calls a listener; and a cursor
\* presented again after read calls only is accepted.
C36_ReadsChangeNothing ==
  /\ [][ReadStep => LeavesIndexAlone]_vars
  /\ [](OnlyReadsSince(1) => ret[1].err = ErrNone)

\* C36 witness: with a listener subscribed, goroutine 2 has rebuilt the cache
\* inside Search, at the version the registry still has, and goroutine 1 has
\* gone on with its walk.
C36_Witness ==
  /\ OnlyReadsSince(1)
  /\ ret[1].err = ErrNone
  /\ pc[2] = "ret"
  /\ frame[2].op = "Search"
  /\ ret[2].path = "rebuilt"
  /\ listeners # << >>
  /\ pre[2].tools = tools
  /\ pre[2].indexVersion = indexVersion

\* ------------------------------------------------------ the order of events
\* The deliveries goroutine u has made in the mutating call it is in.
Delivered(u) ==
  IF pc[u] = "notify" THEN frame[u].notified
  ELSE IF pc[u] = "ret" /\ frame[u].op \in MutOps /\ ret[u].err = ErrNone
  THEN ret[u].notified
  ELSE << >>

\* Goroutine t calls a listener in this step.
Delivers(t) ==
  /\ pc[t] = "notify"
  /\ pc'[t] = "notify"
  /\ Len(frame'[t].notified) = Len(frame[t].notified) + 1

SnapshotOf(f) == Tokens(f.notified) \o Tokens(f.pending)

InNotify(t) == pc[t] = "notify"

\* The critical section of t's mutating call ends in this step: the listeners
\* it will call are the listener list of that moment.
TakesSnapshot(t) ==
  /\ pc[t] \in {"cs", "commit"}
  /\ pc'[t] = "notify"

SnapshotIsTheList(t) ==
  /\ frame'[t].notified = << >>
  /\ frame'[t].pending = listeners
  /\ listeners' = listeners

\* From the snapshot to the return, the call of t calls the listeners of its
\* snapshot, each once and in order, and no other.
KeepsToSnapshot(t) ==
  /\ pc'[t] = "notify" => SnapshotOf(frame'[t]) = SnapshotOf(frame[t])
  /\ pc'[t] = "ret" => /\ frame[t].pending = << >>
                       /\ Tokens(ret'[t].notified) = SnapshotOf(frame[t])
  /\ pc'[t] \in {"notify", "ret"}

\* A listener that enters the list is new: its token was never handed out,
\* and no call that has taken its snapshot calls it.
EntersFresh ==
  \A id \in 1..nextListenerID' :
     (id \in Range(Tokens(listeners')) /\ id \notin Range(Tokens(listeners)))
       => /\ id = nextListenerID + 1
          /\ \A u \in Threads :
                InNotify(u) => id \notin Range(SnapshotOf(frame'[u]))

\* The token of an unsubscribe call that has returned is not in the list,
\* and the list holds tokens that were handed out, each once.
GoneOnceUnsubscribed ==
  /\ \A u \in Threads :
        (pc[u] = "ret" /\ frame[u].op = "Unsubscribe")
          => frame[u].token \notin Range(Tokens(listeners))
  /\ \A i \in 1..Len(listeners) :
        /\ listeners[i].id \in 1..nextListenerID
        /\ \A j \in 1..Len(listeners) : listeners[i].id = listeners[j].id => i = j

\* C38: with calls running concurrently, a successful mutating call calls
\* exactly the listeners that are in the list when its critical section takes
\* the snapshot, each once; a listener enters the list only under a token
\* never used before and is in no snapshot taken earlier; the token of an
\* unsubscribe call that has returned is not in the list and never enters it
\* again, so it is in no snapshot taken afterwards.
C38_CalledIffInSnapshot ==
  /\ [][/\ \A t \in Threads : TakesSnapshot(t) => SnapshotIsTheList(t)
        /\ \A t \in Threads : InNotify(t) /\ pc'[t] # "idle" => KeepsToSnapshot(t)
        /\ EntersFresh]_vars
  /\ []GoneOnceUnsubscribed

\* C38 witness: a mutating call has returned after calling listener 1, which
\* was in its snapshot, while an unsubscribe call of the other goroutine has
\* returned and the list is empty; a second listener cannot have entered
\* before the snapshot.
C38_Witness ==
  /\ pc[1] = "ret"
  /\ frame[1].op \in MutOps
  /\ ret[1].err = ErrNone
  /\ Tokens(ret[1].notified) = << 1 >>
  /\ pc[2] = "ret"
  /\ frame[2].op = "Unsubscribe"
  /\ frame[2].token = 1
  /\ listeners = << >>

\* ------------------------------------------------------ the key specification
\* One goroutine registers, re-registers and removes tools whose IDs collide:
\* "n:a" is the ID of the tool a in namespace n and of the tool named "n:a"
\* with no namespace (the two differ in nothing else).
MaxKeyVersion == 4

ToolColon ==
  MkTool(<< "n", ":", "a" >>, << >>, << "x" >>, SchemaRaw, << << "G" >> >>)

KeyTools == {ToolA, ToolATags, ToolColon, ToolB, ToolBare}

KeyStep(t) ==
  \/ Lock(t)
  \/ RegisterApply(t)
  \/ UnregisterApply(t)
  \/ Commit(t)
  \/ Notify(t)

KeyNext ==
  \E t \in {1} :
     \/ /\ \/ \E tool \in KeyTools, backend \in {BackendLocal, BackendMCP} :
                Budget(MaxKeyVersion) /\ RegisterTool(t, tool, backend)
           \/ \E id \in {ToolID(ToolA), ToolID(ToolBare)},
                 target \in {TargetLocal, TargetMCP} :
                Budget(MaxKeyVersion) /\ UnregisterBackend(t, id, target[1], target[2])
        /\ Invoked(t)
     \/ KeyStep(t) /\ UNCHANGED << pre, bound, restVars >>
     \/ Return(t) /\ Returned(t)

KeySpec == Init /\ [][KeyNext]_vars

\* Every record is stored under the ID of its tool.
KeyIsToolID == \A id \in DOMAIN tools : ToolID(tools[id].tool) = id

\* A record that stays keeps its namespace.
NamespaceKept ==
  \A id \in DOMAIN tools \cap DOMAIN tools' :
     tools'[id].tool.Namespace = tools[id].tool.Namespace

\* The namespace counts and the namespace set change only in a step that
\* creates or deletes a record.
CountsFollowRecords ==
  (namespaceCounts' # namespaceCounts \/ namespaces' # namespaces)
    => DOMAIN tools' # DOMAIN tools

\* C39: every record is stored under the ToolID of the tool it holds; a
\* record that stays in the map keeps its namespace through every
\* re-registration; and the namespace counts change only in steps that
\* create or delete a record.
C39_KeyIsToolID ==
  /\ []KeyIsToolID
  /\ [][NamespaceKept /\ CountsFollowRecords]_vars

\* C39 witness: the tool a of namespace n was re-registered with other tags,
\* successfully, and its record holds the new tool under the same key.
C39_Witness ==
  /\ pc[1] = "ret"
  /\ frame[1].op = "RegisterTool"
  /\ ret[1].err = ErrNone
  /\ frame[1].tool = ToolATags
  /\ ToolID(ToolA) \in DOMAIN pre[1].tools
  /\ pre[1].tools[ToolID(ToolA)].tool = ToolA
  /\ tools[ToolID(ToolA)].tool = ToolATags

\* The tool named "n:a" was refused under the ID of the tool a of
\* namespace n.
CollisionRefused ==
  /\ pc[1] = "ret"
  /\ frame[1].op = "RegisterTool"
  /\ frame[1].tool = ToolColon
  /\ ToolID(ToolA) \in DOMAIN pre[1].tools
  /\ pre[1].tools[ToolID(ToolA)].tool.Namespace = << "n" >>
  /\ ret[1].err = ErrInvalidTool

\* ------------------------------------------------------ the cache invariant
\* Some goroutine is between idx.mu.Lock() and idx.mu.Unlock().
HeldExclusively == \E t \in Threads : pc[t] \in {"cs", "commit"}

\* The cache has been built and nothing has marked it since.
CacheClean == searchDocs # << >> /\ ~searchDocsDirty

\* C40: whenever no goroutine holds the lock exclusively, the cache is dirty
\* exactly when its built-at version differs from the index version, the
\* built-at version is at most the index version, and a cache that is built
\* and not dirty holds the documents (ID, docText, summary) of the current
\* records in ascending order of ID.
C40_CacheCoherent ==
  ~HeldExclusively =>
    /\ searchDocsDirty <=> (searchDocsVersion # indexVersion)
    /\ searchDocsVersion <= indexVersion
    /\ CacheClean => searchDocs[1] = rebuiltDocs(tools)

\* C40 witness: while one goroutine waits for the lock behind a reader, the
\* cache is clean at a version reached by at least two mutations and holds
\* the document of the registered tool.
C40_Witness ==
  /\ ~HeldExclusively
  /\ CacheClean
  /\ indexVersion >= 2
  /\ searchDocsVersion = indexVersion
  /\ tools # << >>
  /\ searchDocs[1] = rebuiltDocs(tools)
  /\ \E t \in Threads : pc[t] = "lockwait"

====
